---- MODULE Spec2Model ----
(***************************************************************************)
(* Model of farhaven/envelopes: the event-sourced ledger (DB, the newest   *)
(* db source) and the PeerManager that replicates it (pm.go, lines 1-397). *)
(*                                                                         *)
(* A store is the pair of SQL tables envelopes and history.  Every write   *)
(* goes through DB.MergeEvent, one SQL transaction.  HTTP handlers call    *)
(* UpdateEnvelopeMeta / UpdateEnvelopeBalance / DeleteEnvelope, which read *)
(* the projection, build an Event, try-send it on the unbuffered channel   *)
(* DB.Events and then merge it.  The PeerManager goroutines drain that     *)
(* channel, publish on the bus, dispatch inbound messages and run the      *)
(* full sync.                                                              *)
(***************************************************************************)
EXTENDS Integers, Sequences, FiniteSets, TLC

(***************************************************************************)
(* Bounds of the model.                                                    *)
(***************************************************************************)
\* number of events the local HTTP handlers may create (uuid.New() calls)
MaxLocal == 1
\* last value of the wall clock
MaxClock == 1

Peers == {"p1", "p2"}
\* the process whose handlers and goroutines are modelled
Self == "p1"
EnvIds == {"A", "B"}

\* the engine step at which a transaction is made to fail (SQLITE_BUSY, I/O error);
\* a call returns "nil", "constraint" (a primary key exists) or "fault"
Faults == {"none", "begin", "envelope", "history", "update", "commit"}

VARIABLES
    envelopes,   \* envelopes[p]: table envelopes of peer p, a function id -> row
    history,     \* history[p]: table history of peer p, a set of rows (id is the primary key)
    now,         \* the wall clock (datetime('now'), time.Now())
    nextId,      \* number of uuid.New() values handed out so far
    req,         \* the HTTP handler in flight on Self: its position, its Event, and
                 \* whether the try-send of the Event took the default branch
    last,        \* the store call that returned last: operation, event, envelope, error, fault
    bcast,       \* the event broadcaster goroutine: at the channel receive, or holding an Event
    handed,      \* handed[p]: the ids of the events delivered to peer p in a replication run
    published,   \* the ids of the Events Self has published on the bus as `event` messages
    need_full_sync, \* PeerManager.need_full_sync
    sync,        \* the full-sync goroutine: position, envelopes and events still to send,
                 \* and for the current pass the ids in history at its start and the ids sent
    mtx,         \* PeerManager.mtx (sync.RWMutex): the task holding it for writing, the readers
    friendObj,   \* the Friend objects made by NewFriend, in order of creation: name,
                 \* Seq of msg (0 for nil), lastSeen, and the task holding Friend.mtx
    friends,     \* PeerManager.friends: name -> Friend object
    oldfriends,  \* PeerManager.oldfriends: name -> Friend object
    task,        \* the PeerManager goroutines and the debug handler: position and locals
    spread,      \* the DB.Spread call in flight on Self: position and locals
    input,       \* the form values of the update request that Self is sent
    reply,       \* what the read handler that ran last got back from the store
    sequence,    \* PeerManager.sequence
    wire,        \* the BusMessages handed to pm.bus.Send, in the order of the calls
    pub,         \* the goroutines that call Publish: position in it, and the message m
    txn,         \* the MergeEvent calls in flight on Self, statement by statement: position,
                 \* the Event, the Envelope read, and the rows written but not committed
    drain        \* drainPeers: its map seen, the calls of connectToPeer it has made, in
                 \* order, each with the outcome of the dial, and the peers it was handed

vars == <<envelopes, history, now, nextId, req, last, bcast, handed, published,
          need_full_sync, sync, mtx, friendObj, friends, oldfriends, task, spread, input,
          reply, sequence, wire, pub, txn, drain>>
pubVars == <<sequence, wire, pub>>
callVars == <<spread, input, reply, pubVars, txn, drain>>
lockVars == <<mtx, friendObj, friends, oldfriends, task>>
pmVars == <<published, need_full_sync, sync, lockVars>>

(***************************************************************************)
(* Events.  The remote events are the ones other peers created with their  *)
(* own Update and Delete calls and published on the bus.                     *)
(***************************************************************************)
Event(id, env, date, name, bal, tgt, mtgt, del, comment) ==
    [Id |-> id, EnvelopeId |-> env, Date |-> date, Name |-> name, Balance |-> bal,
     Target |-> tgt, MonthTarget |-> mtgt, Deleted |-> del, Comment |-> comment]

Pool ==
    { Event(101, "A", 0, "Rent", 3, 0, 0, FALSE, "deposit"),
      Event(102, "A", 0, "", -1, 0, 0, FALSE, ""),
      Event(103, "A", 0, "", 0, 0, 0, TRUE, "") }

(***************************************************************************)
(* The tables.                                                             *)
(***************************************************************************)
ZeroRow == [name |-> "", balance |-> 0, target |-> 0, monthtarget |-> 0, deleted |-> FALSE]

\* what a column declared STRING keeps of a text bound to it: the type name
\* gives the column numeric affinity, so a text that reads as a number is kept
\* as that number and comes back in the number's own spelling ("007" as "7");
\* any other text is kept as it is
StringColumn(s) == IF s = "007" THEN "7" ELSE s

HistoryRow(e, date) ==
    [id |-> e.Id, envelope |-> e.EnvelopeId, date |-> date, name |-> StringColumn(e.Name),
     balance |-> e.Balance, target |-> e.Target, monthtarget |-> e.MonthTarget,
     deleted |-> e.Deleted, comment |-> StringColumn(e.Comment)]

Ids(hist) == { h.id : h \in hist }

DBOf(p) == [envelopes |-> envelopes[p], history |-> history[p]]

\* the Envelope struct Scan fills from a row
EnvelopeOf(id, row) ==
    [Id |-> id, Name |-> row.name, Balance |-> row.balance, Target |-> row.target,
     MonthTarget |-> row.monthtarget]

\* the same SELECT without `AND not deleted`
SelectAny(tx, id) == id \in DOMAIN tx.envelopes

\* SELECT ... WHERE id = $1 AND not deleted: the row is found
SelectLive(tx, id) == id \in DOMAIN tx.envelopes /\ ~tx.envelopes[id].deleted

\* envelopeWithTx: the live row, or else INSERT a zero row (a primary-key
\* conflict when a deleted row with that id exists)
envelopeWithTx(tx, id, fail) ==
    IF SelectLive(tx, id)
    THEN [err |-> "nil", tx |-> tx, env |-> EnvelopeOf(id, tx.envelopes[id])]
    ELSE IF id \in DOMAIN tx.envelopes
         THEN [err |-> "constraint", tx |-> tx, env |-> EnvelopeOf(id, ZeroRow)]
         ELSE IF fail
         THEN [err |-> "fault", tx |-> tx, env |-> EnvelopeOf(id, ZeroRow)]
         ELSE [err |-> "nil",
               tx |-> [tx EXCEPT !.envelopes = (id :> ZeroRow) @@ @],
               env |-> EnvelopeOf(id, ZeroRow)]

\* a history table without its primary key: the second INSERT of an id goes through
InsertHistoryNoKey(tx, e, fail) ==
    IF fail THEN [err |-> "fault", tx |-> tx]
    ELSE [err |-> "nil", tx |-> [tx EXCEPT !.history = @ \cup {HistoryRow(e, now)}]]

\* INSERT INTO history ...: fails on a primary-key conflict
InsertHistory(tx, e, fail) ==
    IF e.Id \in Ids(tx.history) THEN [err |-> "constraint", tx |-> tx]
    ELSE IF fail THEN [err |-> "fault", tx |-> tx]
    ELSE [err |-> "nil", tx |-> [tx EXCEPT !.history = @ \cup {HistoryRow(e, now)}]]

\* an UPDATE that stores the event's balance instead of adding it
UpdateEnvelopeAssign(tx, env, e, fail) ==
    IF fail
    THEN [err |-> "fault", tx |-> tx]
    ELSE [err |-> "nil",
          tx |-> [tx EXCEPT !.envelopes[env.Id] =
                    [name |-> IF e.Name = "" THEN env.Name ELSE e.Name,
                     balance |-> e.Balance,
                     target |-> env.Target + e.Target,
                     monthtarget |-> env.MonthTarget + e.MonthTarget,
                     deleted |-> e.Deleted]]]

\* an UPDATE that stores the name of the event as it came, empty or not
UpdateEnvelopeRawName(tx, env, e, fail) ==
    IF fail
    THEN [err |-> "fault", tx |-> tx]
    ELSE [err |-> "nil",
          tx |-> [tx EXCEPT !.envelopes[env.Id] =
                    [name |-> e.Name,
                     balance |-> env.Balance + e.Balance,
                     target |-> env.Target + e.Target,
                     monthtarget |-> env.MonthTarget + e.MonthTarget,
                     deleted |-> e.Deleted]]]

\* an UPDATE that, for a tombstone, also clears the history of the envelope
UpdateEnvelopePurge(tx, env, e, fail) ==
    IF fail
    THEN [err |-> "fault", tx |-> tx]
    ELSE [err |-> "nil",
          tx |-> [envelopes |-> [tx.envelopes EXCEPT ![env.Id] =
                    [name |-> IF e.Name = "" THEN env.Name ELSE e.Name,
                     balance |-> env.Balance + e.Balance,
                     target |-> env.Target + e.Target,
                     monthtarget |-> env.MonthTarget + e.MonthTarget,
                     deleted |-> e.Deleted]],
                  history |-> IF e.Deleted
                              THEN { h \in tx.history : h.envelope # env.Id \/ h.id = e.Id }
                              ELSE tx.history]]

\* UPDATE envelopes SET name, balance, target, monthtarget, deleted WHERE id = env.Id
UpdateEnvelope(tx, env, e, fail) ==
    IF fail
    THEN [err |-> "fault", tx |-> tx]
    ELSE [err |-> "nil",
          tx |-> [tx EXCEPT !.envelopes[env.Id] =
                    [name |-> StringColumn(IF e.Name = "" THEN env.Name ELSE e.Name),
                     balance |-> env.Balance + e.Balance,
                     target |-> env.Target + e.Target,
                     monthtarget |-> env.MonthTarget + e.MonthTarget,
                     deleted |-> e.Deleted]]]

\* an error path that returns without tx.Rollback(): what the transaction wrote stays
RollbackMissing(db, tx) == tx

\* tx.Rollback(): the tables are those before the transaction began
Rollback(db, tx) == db

\* DB.MergeEvent: [err, db], the error returned and the tables afterwards
MergeEvent(db, e, fault) ==
    IF fault = "begin" THEN [err |-> "fault", db |-> db]
    ELSE
    LET r1 == envelopeWithTx(db, e.EnvelopeId, fault = "envelope") IN
    IF r1.err # "nil" THEN [err |-> r1.err, db |-> Rollback(db, r1.tx)]
    ELSE
    LET r2 == InsertHistory(r1.tx, e, fault = "history") IN
    IF r2.err # "nil" THEN [err |-> r2.err, db |-> Rollback(db, r2.tx)]
    ELSE
    LET r3 == UpdateEnvelope(r2.tx, r1.env, e, fault = "update") IN
    IF r3.err # "nil" THEN [err |-> r3.err, db |-> Rollback(db, r3.tx)]
    ELSE
    IF fault = "commit" THEN [err |-> "fault", db |-> Rollback(db, r3.tx)]
    ELSE [err |-> "nil", db |-> r3.tx]

\* DB.Envelope: envelopeWithTx in a transaction that the deferred Rollback ends
Envelope(db, id, fault) ==
    IF fault = "begin" THEN [err |-> "fault", db |-> db, env |-> EnvelopeOf(id, ZeroRow)]
    ELSE
    LET r == envelopeWithTx(db, id, fault = "envelope") IN
    [err |-> r.err, db |-> Rollback(db, r.tx), env |-> r.env]

SetDB(p, db) ==
    /\ envelopes' = [envelopes EXCEPT ![p] = db.envelopes]
    /\ history' = [history EXCEPT ![p] = db.history]


(***************************************************************************)
(* The initial state: empty tables (DB.setup), no request, the broadcaster *)
(* blocked in its receive.                                                 *)
(***************************************************************************)
\* the zero Event of Go: uuid.Nil ids, empty strings, zero deltas
NoEvent == Event(0, "", 0, "", 0, 0, 0, FALSE, "")

Idle == [pc |-> "idle", op |-> "", evt |-> NoEvent, dropped |-> FALSE]
Returned(op, id, env, err) == [op |-> op, id |-> id, env |-> env, err |-> err]

\* PeerManager.mtx held by nobody
Free == [w |-> "none", r |-> {}]
NoMessage == [From |-> "", To |-> "", Cmd |-> "", Seq |-> 0, Payload |-> NoEvent]
Tasks == {"dispatch", "sweep", "String", "alive"}
\* the goroutines that publish: the heartbeat, the event broadcaster, and the
\* dispatch with its `hello`
Publishers == {"alive", "events", "dispatch"}

\* no Spread call in flight
SpreadIdle ==
    [pc |-> "idle", id |-> "", env |-> EnvelopeOf("", ZeroRow), es |-> {}, total |-> 0,
     todo |-> {}, cur |-> EnvelopeOf("", ZeroRow), n |-> 0, runs |-> 0]
NoInput == [name |-> "", newTarget |-> 0, newMonthTarget |-> 0]
\* no read handler has run
NoReply == [op |-> "", id |-> "", err |-> "nil", env |-> EnvelopeOf("", ZeroRow),
            events |-> {}, envelopes |-> {}]

\* the goroutines that run DB.MergeEvent, each on a connection of its own: an
\* HTTP handler and the dispatch goroutine with an inbound `event`
Conns == {"http", "inbound"}
\* no transaction open; `ok` keeps the ids of the events whose MergeEvent
\* returned nil, `with` the call that was in flight when this one began
TxIdle == [pc |-> "idle", evt |-> NoEvent, env |-> EnvelopeOf("", ZeroRow), rows |-> <<>>,
           hist |-> {}, with |-> 0, ok |-> {}, err |-> "nil", id |-> 0]

\* the process at its start, whatever its tables hold
InitProcess ==
    /\ now = 0
    /\ nextId = 0
    /\ req = Idle
    /\ last = Returned("", 0, "", "nil")
    /\ bcast = [pc |-> "start", evt |-> NoEvent]
    /\ handed = [p \in Peers |-> {}]
    /\ published = {}
    /\ need_full_sync = FALSE
    /\ sync = [pc |-> "sleep", envs |-> {}, events |-> {}, start |-> {}, sent |-> {}]
    /\ mtx = Free
    /\ friendObj = <<>>
    /\ friends = <<>>
    /\ oldfriends = <<>>
    /\ task = [dispatch |-> [pc |-> "recv", m |-> NoMessage, err |-> "nil", f |-> 0, ok |-> FALSE],
               sweep |-> [pc |-> "sleep", todo |-> {}, f |-> 0],
               String |-> [pc |-> "idle", todo |-> {}, f |-> 0],
               alive |-> [pc |-> "publish"]]
    /\ spread = SpreadIdle
    /\ reply = NoReply
    /\ sequence = 0
    /\ wire = <<>>
    /\ pub = [t \in Publishers |-> [pc |-> "idle", m |-> NoMessage]]
    /\ txn = [t \in Conns |-> TxIdle]
    /\ drain = [seen |-> {}, dials |-> <<>>, n |-> 0]

Init ==
    /\ InitProcess
    /\ envelopes = [p \in Peers |-> <<>>]
    /\ history = [p \in Peers |-> {}]
    /\ input = NoInput

\* log.Fatalf (in the full-sync goroutine) has not ended the process
Alive == sync.pc # "fatal"

Tick ==
    /\ now < MaxClock
    /\ now' = now + 1
    /\ UNCHANGED <<envelopes, history, nextId, req, last, bcast, handed, pmVars, callVars>>

(***************************************************************************)
(* The HTTP handlers of Self.  Each call reads the projection and builds   *)
(* its Event (pc idle -> offer), try-sends it (offer -> merge) and merges  *)
(* it (merge -> idle).                                                     *)
(***************************************************************************)
\* DB.UpdateEnvelopeMeta up to the select statement
UpdateEnvelopeMeta(id, name, newTarget, newMonthTarget, fault) ==
    /\ Alive
    /\ req.pc = "idle"
    /\ nextId < MaxLocal
    /\ LET r == Envelope(DBOf(Self), id, fault) IN
       /\ SetDB(Self, r.db)
       /\ IF r.err # "nil"
          THEN /\ last' = Returned("UpdateEnvelopeMeta", 0, id, r.err)
               /\ UNCHANGED <<req, nextId>>
          ELSE IF name = r.env.Name /\ newTarget = 0 /\ newMonthTarget = 0
          THEN /\ last' = Returned("UpdateEnvelopeMeta", 0, id, "nil")
               /\ UNCHANGED <<req, nextId>>
          ELSE /\ nextId' = nextId + 1
               /\ req' = [pc |-> "offer", op |-> "UpdateEnvelopeMeta", dropped |-> FALSE,
                          evt |-> Event(nextId + 1, r.env.Id, now, name, 0,
                                        newTarget - r.env.Target,
                                        newMonthTarget - r.env.MonthTarget, FALSE, "")]
               /\ UNCHANGED last
    /\ UNCHANGED <<now, bcast, handed, pmVars, callVars>>

\* DB.UpdateEnvelopeBalance up to the select statement
UpdateEnvelopeBalance(id, dBalance, comment, fault) ==
    /\ Alive
    /\ req.pc = "idle"
    /\ nextId < MaxLocal
    /\ LET r == Envelope(DBOf(Self), id, fault) IN
       /\ SetDB(Self, r.db)
       /\ IF r.err # "nil"
          THEN /\ last' = Returned("UpdateEnvelopeBalance", 0, id, r.err)
               /\ UNCHANGED <<req, nextId>>
          ELSE /\ nextId' = nextId + 1
               /\ req' = [pc |-> "offer", op |-> "UpdateEnvelopeBalance", dropped |-> FALSE,
                          evt |-> Event(nextId + 1, r.env.Id, now, r.env.Name, dBalance,
                                        0, 0, FALSE, comment)]
               /\ UNCHANGED last
    /\ UNCHANGED <<now, bcast, handed, pmVars, callVars>>

\* DB.DeleteEnvelope up to the select statement
DeleteEnvelope(id) ==
    /\ Alive
    /\ req.pc = "idle"
    /\ nextId < MaxLocal
    /\ nextId' = nextId + 1
    /\ req' = [pc |-> "offer", op |-> "DeleteEnvelope", dropped |-> FALSE,
               evt |-> Event(nextId + 1, id, now, "", 0, 0, 0, TRUE, "")]
    /\ UNCHANGED <<envelopes, history, now, last, bcast, handed, pmVars, callVars>>

\* select { case d.Events <- evt: default: }: the send happens only when the
\* broadcaster is blocked in its receive on the unbuffered channel
Offer ==
    /\ Alive
    /\ req.pc = "offer"
    /\ req' = [req EXCEPT !.pc = "merge", !.dropped = (bcast.pc # "recv")]
    /\ bcast' = IF bcast.pc = "recv" THEN [pc |-> "publish", evt |-> req.evt] ELSE bcast
    /\ UNCHANGED <<envelopes, history, now, nextId, last, handed, pmVars, callVars>>

\* return d.MergeEvent(evt)
MergeLocal(fault) ==
    /\ Alive
    /\ req.pc = "merge"
    /\ LET r == MergeEvent(DBOf(Self), req.evt, fault) IN
       /\ SetDB(Self, r.db)
       /\ last' = Returned(req.op, req.evt.Id, req.evt.EnvelopeId, r.err)
    /\ req' = Idle
    /\ UNCHANGED <<now, nextId, bcast, handed, pmVars, callVars>>

\* the event broadcaster goroutine reaches its first receive on pm.db.Events
BroadcasterStart ==
    /\ Alive
    /\ bcast.pc = "start"
    /\ bcast' = [pc |-> "recv", evt |-> NoEvent]
    /\ UNCHANGED <<envelopes, history, now, nextId, req, last, handed, pmVars, callVars>>

\* the event broadcaster: pm.Publish("*", "event", json.Marshal(<-pm.db.Events));
\* the Event it holds leaves the process as an `event` message, and the
\* goroutine blocks in the receive again
Broadcast ==
    /\ Alive
    /\ bcast.pc = "publish"
    /\ published' = published \cup {bcast.evt.Id}
    /\ bcast' = [pc |-> "recv", evt |-> NoEvent]
    /\ UNCHANGED <<envelopes, history, now, nextId, req, last, handed, need_full_sync, sync,
                   lockVars, callVars>>

\* Friend.HandleMessage, case "event": f.pm.db.MergeEvent(ev), the error is logged
HandleEvent(p, e, fault) ==
    /\ p = Self => Alive
    /\ LET r == MergeEvent(DBOf(p), e, fault) IN
       /\ SetDB(p, r.db)
       /\ last' = Returned("MergeEvent", e.Id, e.EnvelopeId, r.err)
    /\ UNCHANGED <<now, nextId, req, bcast, handed, pmVars, callVars>>

\* a replication run: event e reaches peer p, whose Friend.HandleMessage merges it
Deliver(p, e) ==
    /\ LET r == MergeEvent(DBOf(p), e, "none") IN
       /\ SetDB(p, r.db)
       /\ last' = Returned("MergeEvent", e.Id, e.EnvelopeId, r.err)
    /\ handed' = [handed EXCEPT ![p] = @ \cup {e.Id}]
    /\ UNCHANGED <<now, nextId, req, bcast, pmVars, callVars>>

\* the inputs of the handlers and of the engine
MetaForms == {<<"Rent", 2, 1>>, <<"", 0, 0>>, <<"", 2, 0>>}
Amounts == {-1, 3}
ReadFaults == {"none", "begin", "envelope"}

\* an Event as EnvelopeWithHistory scans it from a history row
EventOfRow(h) ==
    Event(h.id, h.envelope, h.date, h.name, h.balance, h.target, h.monthtarget,
          h.deleted, h.comment)

\* what the bus may deliver to p: the events of other peers, and the events
\* p holds itself, sent back by a peer's full sync
Inbound(p) == Pool \cup { EventOfRow(h) : h \in history[p] }

Next ==
    \/ \E id \in EnvIds, m \in MetaForms, f \in ReadFaults :
          UpdateEnvelopeMeta(id, m[1], m[2], m[3], f)
    \/ \E id \in EnvIds, d \in Amounts, f \in ReadFaults :
          UpdateEnvelopeBalance(id, d, "tx", f)
    \/ \E id \in EnvIds : DeleteEnvelope(id)
    \/ Offer
    \/ \E f \in Faults : MergeLocal(f)
    \/ \E e \in Inbound(Self), f \in Faults : HandleEvent(Self, e, f)

Spec == Init /\ [][Next]_vars

(***************************************************************************)
(* The full sync.                                                          *)
(***************************************************************************)
\* DATE('now', 'start of month'): clock value 0 lies in one calendar month,
\* every later value in the month after it
StartOfMonth(t) == IF t = 0 THEN 0 ELSE 1

\* SELECT envelope, sum(balance) FROM history WHERE date > DATE('now', 'start
\* of month') GROUP BY envelope, for one envelope; the date of a row is a
\* date and a time of day, which as a string is greater than the date alone
\* of the same day. NULL (no such row) leaves MonthDelta zero.
RECURSIVE SumRows(_)
SumRows(rows) ==
    IF rows = {} THEN 0
    ELSE LET h == CHOOSE x \in rows : TRUE IN h.balance + SumRows(rows \ {h})

\* the same subquery without its WHERE clause
MonthDeltaAllRows(db, id) == SumRows({ h \in db.history : h.envelope = id })

MonthDelta(db, id) ==
    SumRows({ h \in db.history : h.envelope = id /\ h.date >= StartOfMonth(now) })

\* DB.AllEnvelopes: the rows that are not deleted, each joined with the sum
\* of this month's balance deltas
AllEnvelopes(db) ==
    { EnvelopeOf(id, db.envelopes[id]) @@ [MonthDelta |-> MonthDelta(db, id)] :
        id \in { i \in DOMAIN db.envelopes : ~db.envelopes[i].deleted } }

\* DB.EnvelopeWithHistory: the envelope and the events of its history rows, a
\* tombstone's name replaced by the envelope's; the deferred Rollback ends the
\* transaction
EnvelopeWithHistory(db, id) ==
    LET r == envelopeWithTx(db, id, FALSE) IN
    [err |-> r.err, db |-> Rollback(db, r.tx), env |-> r.env,
     events |-> IF r.err # "nil" THEN {}
                ELSE { IF h.deleted THEN [EventOfRow(h) EXCEPT !.Name = r.env.Name]
                       ELSE EventOfRow(h) : h \in { x \in db.history : x.envelope = id } }]

\* inbound dispatch meets an unknown sender (a Friend is created), or a Friend
\* handles `hello`: pm.need_full_sync = true
FriendAppears ==
    /\ Alive
    /\ need_full_sync' = TRUE
    /\ UNCHANGED <<envelopes, history, now, nextId, req, last, bcast, handed, published, sync,
                   lockVars, callVars>>

\* the full-sync goroutine wakes, tests and clears the flag under pm.mtx
SyncCheck ==
    /\ Alive
    /\ sync.pc = "sleep"
    /\ mtx = Free
    /\ need_full_sync
    /\ need_full_sync' = FALSE
    /\ sync' = [pc |-> "envelopes", envs |-> {}, events |-> {},
                start |-> Ids(history[Self]), sent |-> {}]
    /\ UNCHANGED <<envelopes, history, now, nextId, req, last, bcast, handed, published,
                   lockVars, callVars>>

\* for _, env := range pm.db.AllEnvelopes()
SyncAllEnvelopes ==
    /\ sync.pc = "envelopes"
    /\ sync' = [sync EXCEPT !.pc = "history",
                            !.envs = { e.Id : e \in AllEnvelopes(DBOf(Self)) }]
    /\ UNCHANGED <<envelopes, history, now, nextId, req, last, bcast, handed, published,
                   need_full_sync, lockVars, callVars>>

\* pm.db.EnvelopeWithHistory(env.Id) for the next envelope of the range; an
\* error ends the process (log.Fatalf); after the last envelope the pass is over
SyncHistory ==
    /\ sync.pc = "history"
    /\ IF sync.envs = {}
       THEN /\ sync' = [sync EXCEPT !.pc = "sleep"]
            /\ UNCHANGED <<envelopes, history>>
       ELSE \E id \in sync.envs :
              LET r == EnvelopeWithHistory(DBOf(Self), id) IN
              /\ SetDB(Self, r.db)
              /\ sync' = IF r.err # "nil"
                         THEN [sync EXCEPT !.pc = "fatal"]
                         ELSE [sync EXCEPT !.pc = "send", !.envs = @ \ {id},
                                           !.events = r.events]
    /\ UNCHANGED <<now, nextId, req, last, bcast, handed, published, need_full_sync,
                   lockVars, callVars>>

\* pm.db.Events <- e: the blocking send completes when the broadcaster receives
SyncSend ==
    /\ sync.pc = "send"
    /\ IF sync.events = {}
       THEN /\ sync' = [sync EXCEPT !.pc = "history"]
            /\ UNCHANGED bcast
       ELSE /\ bcast.pc = "recv"
            /\ \E e \in sync.events :
                 /\ bcast' = [pc |-> "publish", evt |-> e]
                 /\ sync' = [sync EXCEPT !.events = @ \ {e}, !.sent = @ \cup {e.Id}]
    /\ UNCHANGED <<envelopes, history, now, nextId, req, last, handed, published,
                   need_full_sync, lockVars, callVars>>

\* the process with its broadcaster and its full-sync goroutine
NextSync ==
    \/ \E d \in Amounts : UpdateEnvelopeBalance("A", d, "tx", "none")
    \/ DeleteEnvelope("A")
    \/ Offer
    \/ MergeLocal("none")
    \/ BroadcasterStart
    \/ Broadcast
    \/ \E e \in Pool : HandleEvent(Self, e, "none")
    \/ FriendAppears
    \/ SyncCheck
    \/ SyncAllEnvelopes
    \/ SyncHistory
    \/ SyncSend

\* the goroutines and a handler that has started all run on; peers keep appearing
SyncFairness ==
    /\ WF_vars(Offer)
    /\ WF_vars(MergeLocal("none"))
    /\ WF_vars(BroadcasterStart)
    /\ WF_vars(Broadcast)
    /\ WF_vars(FriendAppears)
    /\ WF_vars(SyncCheck)
    /\ WF_vars(SyncAllEnvelopes)
    /\ WF_vars(SyncHistory)
    /\ WF_vars(SyncSend)

SpecSync == Init /\ [][NextSync]_vars /\ SyncFairness

\* two peers that are handed the events of Pool, each in any order
NextPeers ==
    \/ Tick
    \/ \E p \in Peers, e \in Pool : Deliver(p, e)

SpecPeers == Init /\ [][NextPeers]_vars

(***************************************************************************)
(* The PeerManager goroutines and their two locks, under SpecPM.  A step   *)
(* that would block on a lock is an action guarded by the lock being free. *)
(***************************************************************************)
MaxSeq == 2
MaxFriends == 2

Senders == Peers \ {Self}
Cmds == {"event", "hello", "i'm alive"}

At(t, pc) == Alive /\ task[t].pc = pc
Goto(t, pc) == [task EXCEPT ![t].pc = pc]

NewFriend(name) == [name |-> name, msg |-> 0, lastSeen |-> now, mtx |-> "none"]

\* a frame off the bus: the bytes that json.Unmarshal rejects, or a BusMessage
Malformed == [err |-> "parse", m |-> NoMessage]
Frame(from, to, cmd, seq, e) ==
    [err |-> "nil", m |-> [From |-> from, To |-> to, Cmd |-> cmd, Seq |-> seq, Payload |-> e]]

\* the Events that `event` messages carry: a deposit and a tombstone
Payloads == { e \in Pool : e.Id \in {101, 103} }

\* the frames of other peers that are meant for Self: `hello` is addressed to
\* the nick, `event` and `i'm alive` to everyone
Addressed ==
    { Frame(from, IF cmd = "hello" THEN Self ELSE "*", cmd, seq, e) :
        from \in Senders, cmd \in Cmds, seq \in 1 .. MaxSeq, e \in Payloads \cup {NoEvent} }
GoodFrames == { fr \in Addressed : (fr.m.Cmd = "event") <=> (fr.m.Payload # NoEvent) }

\* frames that are not for Self: garbage, its own messages echoed by the bus,
\* a `hello` between two other peers
OtherFrames ==
    { Malformed,
      Frame(Self, "*", "i'm alive", 1, NoEvent),
      Frame(Self, "*", "event", 1, Event(101, "A", 0, "Rent", 3, 0, 0, FALSE, "deposit")),
      Frame("p2", "p3", "hello", 1, NoEvent) }
Frames == GoodFrames \cup OtherFrames

\* the own nick is not tested
IgnoredButOwn(fr) ==
    \/ fr.err # "nil"
    \/ fr.m.To # Self /\ fr.m.To # "*"

\* if err != nil { continue }; if m.From == pm.nick { continue };
\* if m.To != pm.nick && m.To != "*" { continue }
Ignored(fr) ==
    \/ fr.err # "nil"
    \/ fr.m.From = Self
    \/ fr.m.To # Self /\ fr.m.To # "*"

\* m, err := NewBusMessage(pm.bus.Recv()) and the three tests that follow it
DispatchRecv(fr) ==
    /\ At("dispatch", "recv")
    /\ IF Ignored(fr)
       THEN task' = [task EXCEPT !.dispatch.m = fr.m, !.dispatch.err = fr.err]
       ELSE /\ fr.m.From \in DOMAIN friends \/ Len(friendObj) < MaxFriends
            /\ task' = [task EXCEPT !.dispatch =
                          [pc |-> "lookup", f |-> 0, ok |-> FALSE, m |-> fr.m, err |-> fr.err]]
    /\ UNCHANGED <<envelopes, history, now, nextId, req, last, bcast, handed, published,
                   need_full_sync, sync, mtx, friendObj, friends, oldfriends, callVars>>

\* a Friend kept in oldfriends is taken back into friends
ReviveFriend(name) ==
    IF name \in DOMAIN oldfriends
    THEN [objs |-> friendObj, f |-> oldfriends[name]]
    ELSE [objs |-> Append(friendObj, NewFriend(name)), f |-> Len(friendObj) + 1]

\* f = NewFriend(m.From, pm): a new object, whatever oldfriends holds
CreateFriend(name) ==
    [objs |-> Append(friendObj, NewFriend(name)), f |-> Len(friendObj) + 1]

\* a lookup that also drops the sender's entry in oldfriends when it makes the Friend
DispatchLookupForget ==
    /\ At("dispatch", "lookup")
    /\ mtx = Free
    /\ LET from == task.dispatch.m.From IN
       IF from \in DOMAIN friends
       THEN /\ task' = [task EXCEPT !.dispatch.pc = "handle",
                                    !.dispatch.f = friends[from],
                                    !.dispatch.ok = TRUE]
            /\ UNCHANGED <<friendObj, friends, need_full_sync, oldfriends>>
       ELSE LET c == CreateFriend(from) IN
            /\ friendObj' = c.objs
            /\ friends' = (from :> c.f) @@ friends
            /\ oldfriends' = [n \in DOMAIN oldfriends \ {from} |-> oldfriends[n]]
            /\ need_full_sync' = TRUE
            /\ task' = [task EXCEPT !.dispatch.pc = "handle",
                                    !.dispatch.f = c.f,
                                    !.dispatch.ok = FALSE]
    /\ UNCHANGED <<envelopes, history, now, nextId, req, last, bcast, handed, published,
                   sync, mtx, callVars>>

\* pm.mtx.Lock(); f, ok := pm.friends[m.From]; if !ok { ... }; pm.mtx.Unlock()
DispatchLookup ==
    /\ At("dispatch", "lookup")
    /\ mtx = Free
    /\ LET from == task.dispatch.m.From IN
       IF from \in DOMAIN friends
       THEN /\ task' = [task EXCEPT !.dispatch.pc = "handle",
                                    !.dispatch.f = friends[from],
                                    !.dispatch.ok = TRUE]
            /\ UNCHANGED <<friendObj, friends, need_full_sync>>
       ELSE LET c == CreateFriend(from) IN
            /\ friendObj' = c.objs
            /\ friends' = (from :> c.f) @@ friends
            /\ need_full_sync' = TRUE
            /\ task' = [task EXCEPT !.dispatch.pc = "handle",
                                    !.dispatch.f = c.f,
                                    !.dispatch.ok = FALSE]
    /\ UNCHANGED <<envelopes, history, now, nextId, req, last, bcast, handed, published,
                   sync, mtx, oldfriends, callVars>>

\* Friend.HandleMessage: f.mtx.Lock()
HandleMessageLock ==
    /\ At("dispatch", "handle")
    /\ friendObj[task.dispatch.f].mtx = "none"
    /\ friendObj' = [friendObj EXCEPT ![task.dispatch.f].mtx = "dispatch"]
    /\ task' = Goto("dispatch", "body")
    /\ UNCHANGED <<envelopes, history, now, nextId, req, last, bcast, handed, published,
                   need_full_sync, sync, mtx, friends, oldfriends, callVars>>

\* a Payload string that is not the JSON of an Event
NotJSON == [text |-> "{"]

\* ev := Event{}; err := json.Unmarshal([]byte(m.Payload), &ev): a Payload that
\* does not parse leaves ev the zero Event. (A well-formed Payload is held in the
\* model as the Event it encodes.)
Unmarshal(payload) ==
    IF payload = NotJSON THEN [err |-> "syntax", ev |-> NoEvent]
    ELSE [err |-> "nil", ev |-> payload]

\* a message that is not newer than the one kept, skipped so that bus echoes are not handled twice
AlreadySeenStrict(f, m) == friendObj[f].msg # 0 /\ friendObj[f].msg > m.Seq

\* if f.msg != nil && f.msg.Seq >= m.Seq
AlreadySeen(f, m) == friendObj[f].msg # 0 /\ friendObj[f].msg >= m.Seq

\* a HandleMessage that offers the Event it merged to the event broadcaster, as
\* the Update and Delete calls do with theirs
HandleMessageBodyEcho ==
    /\ At("dispatch", "body")
    /\ LET f == task.dispatch.f
           m == task.dispatch.m
       IN
       IF AlreadySeen(f, m)
       THEN /\ task' = Goto("dispatch", "return")
            /\ UNCHANGED <<envelopes, history, last, friendObj, bcast>>
       ELSE /\ friendObj' = [friendObj EXCEPT ![f].msg = m.Seq, ![f].lastSeen = now]
            /\ IF m.Cmd = "event"
               THEN LET ev == Unmarshal(m.Payload).ev
                        r == MergeEvent(DBOf(Self), ev, "none")
                    IN
                    /\ SetDB(Self, r.db)
                    /\ last' = Returned("MergeEvent", ev.Id, ev.EnvelopeId, r.err)
                    /\ task' = Goto("dispatch", "return")
                    /\ bcast' = IF bcast.pc = "recv" THEN [pc |-> "publish", evt |-> ev]
                                ELSE bcast
               ELSE /\ task' = Goto("dispatch", IF m.Cmd = "hello" THEN "hello" ELSE "return")
                    /\ UNCHANGED <<envelopes, history, last, bcast>>
    /\ UNCHANGED <<now, nextId, req, handed, published, need_full_sync, sync, mtx,
                   friends, oldfriends, callVars>>

\* Friend.HandleMessage: the sequence test, f.msg and f.lastSeen, the switch on
\* m.Cmd up to the case "hello", which goes on to lock pm.mtx
HandleMessageBody ==
    /\ At("dispatch", "body")
    /\ LET f == task.dispatch.f
           m == task.dispatch.m
       IN
       IF AlreadySeen(f, m)
       THEN /\ task' = Goto("dispatch", "return")
            /\ UNCHANGED <<envelopes, history, last, friendObj>>
       ELSE /\ friendObj' = [friendObj EXCEPT ![f].msg = m.Seq, ![f].lastSeen = now]
            /\ IF m.Cmd = "event"
               THEN LET ev == Unmarshal(m.Payload).ev
                        r == MergeEvent(DBOf(Self), ev, "none")
                    IN
                    /\ SetDB(Self, r.db)
                    /\ last' = Returned("MergeEvent", ev.Id, ev.EnvelopeId, r.err)
                    /\ task' = Goto("dispatch", "return")
               ELSE /\ task' = Goto("dispatch", IF m.Cmd = "hello" THEN "hello" ELSE "return")
                    /\ UNCHANGED <<envelopes, history, last>>
    /\ UNCHANGED <<now, nextId, req, bcast, handed, published, need_full_sync, sync, mtx,
                   friends, oldfriends, callVars>>

\* case "hello": f.pm.mtx.Lock(); f.pm.need_full_sync = true
HandleMessageHello ==
    /\ At("dispatch", "hello")
    /\ mtx = Free
    /\ mtx' = [mtx EXCEPT !.w = "dispatch"]
    /\ need_full_sync' = TRUE
    /\ task' = Goto("dispatch", "return")
    /\ UNCHANGED <<envelopes, history, now, nextId, req, last, bcast, handed, published,
                   sync, friendObj, friends, oldfriends, callVars>>

\* the deferred f.pm.mtx.Unlock() and f.mtx.Unlock(); then back in the loop,
\* if !ok { pm.Publish(m.From, "hello", "") }
HandleMessageReturn ==
    /\ At("dispatch", "return")
    /\ mtx' = IF mtx.w = "dispatch" THEN Free ELSE mtx
    /\ friendObj' = [friendObj EXCEPT ![task.dispatch.f].mtx = "none"]
    /\ task' = Goto("dispatch", IF task.dispatch.ok THEN "recv" ELSE "publish")
    /\ UNCHANGED <<envelopes, history, now, nextId, req, last, bcast, handed, published,
                   need_full_sync, sync, friends, oldfriends, callVars>>

\* PeerManager.Publish: pm.mtx.Lock(); pm.sequence++; m := &BusMessage{...}
PublishLock(t) ==
    /\ At(t, "publish")
    /\ mtx = Free
    /\ mtx' = [mtx EXCEPT !.w = t]
    /\ task' = Goto(t, "send")
    /\ UNCHANGED <<envelopes, history, now, nextId, req, last, bcast, handed, published,
                   need_full_sync, sync, friendObj, friends, oldfriends, callVars>>

\* PeerManager.Publish: pm.mtx.Unlock(); return pm.bus.Send(m.Bytes())
PublishUnlock(t) ==
    /\ At(t, "send")
    /\ mtx' = Free
    /\ task' = Goto(t, IF t = "dispatch" THEN "recv" ELSE "publish")
    /\ UNCHANGED <<envelopes, history, now, nextId, req, last, bcast, handed, published,
                   need_full_sync, sync, friendObj, friends, oldfriends, callVars>>

\* the liveness sweep: pm.mtx.Lock(); for name, f := range pm.friends
SweepLock ==
    /\ At("sweep", "sleep")
    /\ mtx = Free
    /\ mtx' = [mtx EXCEPT !.w = "sweep"]
    /\ task' = [task EXCEPT !.sweep = [pc |-> "iter", todo |-> DOMAIN friends, f |-> 0]]
    /\ UNCHANGED <<envelopes, history, now, nextId, req, last, bcast, handed, published,
                   need_full_sync, sync, friendObj, friends, oldfriends, callVars>>

\* range hands out the next entry of the map
SweepNext(name) ==
    /\ At("sweep", "iter")
    /\ name \in task.sweep.todo
    /\ task' = [task EXCEPT !.sweep = [pc |-> "friend", todo |-> @.todo \ {name},
                                       f |-> friends[name]]]
    /\ UNCHANGED <<envelopes, history, now, nextId, req, last, bcast, handed, published,
                   need_full_sync, sync, mtx, friendObj, friends, oldfriends, callVars>>

\* a sweep that moves every friend it visits, heard of lately or not
SweepFriendAll ==
    /\ At("sweep", "friend")
    /\ LET f == task.sweep.f
           name == friendObj[f].name
       IN
       /\ friendObj[f].mtx = "none"
       /\ oldfriends' = (name :> f) @@ oldfriends
       /\ friends' = [n \in DOMAIN friends \ {name} |-> friends[n]]
    /\ task' = Goto("sweep", "iter")
    /\ UNCHANGED <<envelopes, history, now, nextId, req, last, bcast, handed, published,
                   need_full_sync, sync, mtx, friendObj, callVars>>

\* f.mtx.Lock(); a friend not seen for ten seconds (a tick of the clock) moves
\* to oldfriends; f.mtx.Unlock()
SweepFriend ==
    /\ At("sweep", "friend")
    /\ LET f == task.sweep.f
           name == friendObj[f].name
       IN
       /\ friendObj[f].mtx = "none"
       /\ IF friendObj[f].lastSeen < now
          THEN /\ oldfriends' = (name :> f) @@ oldfriends
               /\ friends' = [n \in DOMAIN friends \ {name} |-> friends[n]]
          ELSE UNCHANGED <<friends, oldfriends>>
    /\ task' = Goto("sweep", "iter")
    /\ UNCHANGED <<envelopes, history, now, nextId, req, last, bcast, handed, published,
                   need_full_sync, sync, mtx, friendObj, callVars>>

\* pm.mtx.Unlock(); time.Sleep(2 * time.Second)
SweepUnlock ==
    /\ At("sweep", "iter")
    /\ task.sweep.todo = {}
    /\ mtx' = Free
    /\ task' = Goto("sweep", "sleep")
    /\ UNCHANGED <<envelopes, history, now, nextId, req, last, bcast, handed, published,
                   need_full_sync, sync, friendObj, friends, oldfriends, callVars>>

Range(fn) == { fn[x] : x \in DOMAIN fn }

\* PeerManager.String: pm.mtx.RLock(); the two loops over friends and oldfriends
StringRLock ==
    /\ At("String", "idle")
    /\ mtx.w = "none"
    /\ mtx' = [mtx EXCEPT !.r = @ \cup {"String"}]
    /\ task' = [task EXCEPT !.String = [pc |-> "iter", f |-> 0,
                                        todo |-> Range(friends) \cup Range(oldfriends)]]
    /\ UNCHANGED <<envelopes, history, now, nextId, req, last, bcast, handed, published,
                   need_full_sync, sync, friendObj, friends, oldfriends, callVars>>

StringNext(f) ==
    /\ At("String", "iter")
    /\ f \in task.String.todo
    /\ task' = [task EXCEPT !.String = [pc |-> "friend", todo |-> @.todo \ {f}, f |-> f]]
    /\ UNCHANGED <<envelopes, history, now, nextId, req, last, bcast, handed, published,
                   need_full_sync, sync, mtx, friendObj, friends, oldfriends, callVars>>

\* Friend.String: f.mtx.Lock(), the line is formatted, f.mtx.Unlock()
StringFriend ==
    /\ At("String", "friend")
    /\ friendObj[task.String.f].mtx = "none"
    /\ task' = Goto("String", "iter")
    /\ UNCHANGED <<envelopes, history, now, nextId, req, last, bcast, handed, published,
                   need_full_sync, sync, mtx, friendObj, friends, oldfriends, callVars>>

\* the deferred pm.mtx.RUnlock()
StringRUnlock ==
    /\ At("String", "iter")
    /\ task.String.todo = {}
    /\ mtx' = [mtx EXCEPT !.r = @ \ {"String"}]
    /\ task' = Goto("String", "idle")
    /\ UNCHANGED <<envelopes, history, now, nextId, req, last, bcast, handed, published,
                   need_full_sync, sync, friendObj, friends, oldfriends, callVars>>

NextPM ==
    \/ Tick
    \/ \E fr \in Frames : DispatchRecv(fr)
    \/ DispatchLookup
    \/ HandleMessageLock
    \/ HandleMessageBody
    \/ HandleMessageHello
    \/ HandleMessageReturn
    \/ \E t \in {"dispatch", "alive"} : PublishLock(t)
    \/ \E t \in {"dispatch", "alive"} : PublishUnlock(t)
    \/ SweepLock
    \/ \E name \in Senders : SweepNext(name)
    \/ SweepFriend
    \/ SweepUnlock
    \/ StringRLock
    \/ \E f \in 1 .. MaxFriends : StringNext(f)
    \/ StringFriend
    \/ StringRUnlock

SpecPM == Init /\ [][NextPM]_vars

\* the dispatch and the liveness sweep alone, no peer sending a tombstone;
\* every goroutine that can take a step does so in the end
NextHello ==
    \/ Tick
    \/ \E fr \in { g \in Frames : ~g.m.Payload.Deleted } : DispatchRecv(fr)
    \/ DispatchLookup
    \/ HandleMessageLock
    \/ HandleMessageBody
    \/ HandleMessageHello
    \/ HandleMessageReturn
    \/ PublishLock("dispatch")
    \/ PublishUnlock("dispatch")
    \/ SweepLock
    \/ \E name \in Senders : SweepNext(name)
    \/ SweepFriend
    \/ SweepUnlock

HelloFairness ==
    /\ WF_vars(DispatchLookup)
    /\ WF_vars(HandleMessageLock)
    /\ WF_vars(HandleMessageBody)
    /\ WF_vars(HandleMessageHello)
    /\ WF_vars(HandleMessageReturn)
    /\ WF_vars(PublishLock("dispatch"))
    /\ WF_vars(PublishUnlock("dispatch"))
    /\ WF_vars(SweepLock)
    /\ WF_vars(\E name \in Senders : SweepNext(name))
    /\ WF_vars(SweepFriend)
    /\ WF_vars(SweepUnlock)

SpecHello == Init /\ [][NextHello]_vars /\ HelloFairness

\* the same goroutines, with a peer that also sends `event` messages whose
\* Payload is not JSON
BadFrames == { Frame(from, "*", "event", seq, NotJSON) : from \in Senders, seq \in 1 .. MaxSeq }

NextDecode ==
    \/ NextHello
    \/ \E fr \in BadFrames : DispatchRecv(fr)

SpecDecode == Init /\ [][NextDecode]_vars

\* the dispatch and the sweep together with the full-sync goroutine and the
\* broadcaster it feeds; a goroutine that waits for pm.mtx gets it in the end
\* if the lock is free time and again
NextFlag ==
    \/ \E fr \in { g \in GoodFrames : ~g.m.Payload.Deleted } :
          DispatchRecv(fr)
    \/ DispatchLookup
    \/ HandleMessageLock
    \/ HandleMessageBody
    \/ HandleMessageHello
    \/ HandleMessageReturn
    \/ PublishLock("dispatch")
    \/ PublishUnlock("dispatch")
    \/ SweepLock
    \/ \E name \in Senders : SweepNext(name)
    \/ SweepFriend
    \/ SweepUnlock
    \/ SyncCheck
    \/ SyncAllEnvelopes
    \/ SyncHistory
    \/ SyncSend
    \/ BroadcasterStart
    \/ Broadcast

FlagFairness ==
    /\ HelloFairness
    /\ SF_vars(SyncCheck)
    /\ WF_vars(SyncAllEnvelopes)
    /\ WF_vars(SyncHistory)
    /\ WF_vars(SyncSend)
    /\ WF_vars(BroadcasterStart)
    /\ WF_vars(Broadcast)

SpecFlag == Init /\ [][NextFlag]_vars /\ FlagFairness

(***************************************************************************)
(* PeerManager.Publish statement by statement, under SpecPublish: the      *)
(* three goroutines that publish, the counter and the bus.  (PublishLock   *)
(* and PublishUnlock above are the same calls seen as users of the lock.)  *)
(***************************************************************************)
\* number of Publish calls
MaxPublish == 3

\* what each goroutine publishes, and to whom
CmdOf(t) == IF t = "alive" THEN "i'm alive" ELSE IF t = "events" THEN "event" ELSE "hello"
DstOf(t) == IF t = "dispatch" THEN "p2" ELSE "*"

\* a lock that lets several holders in
RLockPM(t) == mtx.w = "none" /\ mtx' = [mtx EXCEPT !.r = @ \cup {t}]

\* pm.mtx.Lock()
LockPM(t) == mtx = Free /\ mtx' = [mtx EXCEPT !.w = t]

\* pm.mtx.Unlock()
UnlockPM(t) == mtx' = [w |-> IF mtx.w = t THEN "none" ELSE mtx.w, r |-> mtx.r \ {t}]

InPublish == { t \in Publishers : pub[t].pc # "idle" }

\* a goroutine calls pm.Publish(dst, cmd, payload)
PublishCall(t) ==
    /\ Alive
    /\ pub[t].pc = "idle"
    /\ Len(wire) + Cardinality(InPublish) < MaxPublish
    /\ pub' = [pub EXCEPT ![t] = [pc |-> "lock", m |-> NoMessage]]
    /\ UNCHANGED <<envelopes, history, now, nextId, req, last, bcast, handed, pmVars,
                   spread, input, txn, drain, reply, sequence, wire>>

\* pm.mtx.Lock()
PublishEnter(t) ==
    /\ pub[t].pc = "lock"
    /\ LockPM(t)
    /\ pub' = [pub EXCEPT ![t].pc = "count"]
    /\ UNCHANGED <<envelopes, history, now, nextId, req, last, bcast, handed, published,
                   need_full_sync, sync, friendObj, friends, oldfriends, task,
                   spread, input, txn, drain, reply, sequence, wire>>

\* pm.sequence++
PublishCount(t) ==
    /\ pub[t].pc = "count"
    /\ sequence' = sequence + 1
    /\ pub' = [pub EXCEPT ![t].pc = "build"]
    /\ UNCHANGED <<envelopes, history, now, nextId, req, last, bcast, handed, pmVars,
                   spread, input, txn, drain, reply, wire>>

\* m := &BusMessage{From: pm.nick, To: dst, Seq: pm.sequence, Cmd: cmd, Payload: payload}
PublishBuild(t) ==
    /\ pub[t].pc = "build"
    /\ pub' = [pub EXCEPT ![t] =
                 [pc |-> "unlock",
                  m |-> [From |-> Self, To |-> DstOf(t), Cmd |-> CmdOf(t), Seq |-> sequence,
                         Payload |-> NoEvent]]]
    /\ UNCHANGED <<envelopes, history, now, nextId, req, last, bcast, handed, pmVars,
                   spread, input, txn, drain, reply, sequence, wire>>

\* pm.mtx.Unlock()
PublishLeave(t) ==
    /\ pub[t].pc = "unlock"
    /\ UnlockPM(t)
    /\ pub' = [pub EXCEPT ![t].pc = "send"]
    /\ UNCHANGED <<envelopes, history, now, nextId, req, last, bcast, handed, published,
                   need_full_sync, sync, friendObj, friends, oldfriends, task,
                   spread, input, txn, drain, reply, sequence, wire>>

\* return pm.bus.Send(m.Bytes())
PublishSend(t) ==
    /\ pub[t].pc = "send"
    /\ wire' = Append(wire, pub[t].m)
    /\ pub' = [pub EXCEPT ![t].pc = "idle"]
    /\ UNCHANGED <<envelopes, history, now, nextId, req, last, bcast, handed, pmVars,
                   spread, input, txn, drain, reply, sequence>>

NextPublish ==
    \/ \E t \in Publishers : PublishCall(t)
    \/ \E t \in Publishers : PublishEnter(t)
    \/ \E t \in Publishers : PublishCount(t)
    \/ \E t \in Publishers : PublishBuild(t)
    \/ \E t \in Publishers : PublishLeave(t)
    \/ \E t \in Publishers : PublishSend(t)

SpecPublish == Init /\ [][NextPublish]_vars

(***************************************************************************)
(* The ledger with envelopes in it, under SpecStore: a read of one         *)
(* envelope, an update request and DB.Spread, on tables that hold what     *)
(* earlier events of the peers have left there.                            *)
(***************************************************************************)
\* number of Spread calls
MaxSpread == 1

SpreadIds == {"A", "B", "C"}

\* DB.Envelope called by a handler that only reads
GetEnvelope(id, fault) ==
    /\ Alive
    /\ LET r == Envelope(DBOf(Self), id, fault) IN
       /\ SetDB(Self, r.db)
       /\ last' = Returned("Envelope", 0, id, r.err)
    /\ UNCHANGED <<now, nextId, req, bcast, handed, pmVars, callVars>>

Abs(n) == IF n < 0 THEN -n ELSE n

\* a conversion that goes up to the next integer in magnitude
CeilDiv(n, d) ==
    LET q == (Abs(n) + Abs(d) - 1) \div Abs(d) IN IF (n < 0) # (d < 0) THEN -q ELSE q

\* int(float64(n) / float64(d)): the conversion drops the fraction
TruncDiv(n, d) ==
    LET q == Abs(n) \div Abs(d) IN IF (n < 0) # (d < 0) THEN -q ELSE q

\* the sum of MonthTarget over a set of Envelope structs
RECURSIVE SumMonthTarget(_)
SumMonthTarget(es) ==
    IF es = {} THEN 0
    ELSE LET e == CHOOSE x \in es : TRUE IN e.MonthTarget + SumMonthTarget(es \ {e})

\* one UpdateEnvelopeBalance call made by Spread, from its read to its merge
ApplyBalance(db, id, dBalance, comment, eid, fault) ==
    LET r == Envelope(db, id, IF fault \in ReadFaults THEN fault ELSE "none") IN
    IF r.err # "nil" THEN [err |-> r.err, db |-> r.db, evt |-> NoEvent]
    ELSE LET evt == Event(eid, r.env.Id, now, r.env.Name, dBalance, 0, 0, FALSE, comment)
             m == MergeEvent(db, evt, IF fault \in ReadFaults THEN "none" ELSE fault)
         IN [err |-> m.err, db |-> m.db, evt |-> evt]

\* the try-send of an Event by a call that is one step of the model
TrySend(evt) ==
    bcast' = IF evt # NoEvent /\ bcast.pc = "recv" THEN [pc |-> "publish", evt |-> evt]
             ELSE bcast

\* float64(toSpread.Balance) * (float64(e.MonthTarget) / float64(totalMonthTarget))
Amount(sp, e) == TruncDiv(sp.env.Balance * e.MonthTarget, sp.total)

SpreadEventId(sp) == 300 + 10 * sp.runs + sp.n + 1

\* DB.Spread up to its second loop: AllEnvelopes, Envelope(id), the total
SpreadStart(id, fault) ==
    /\ Alive
    /\ spread.pc = "idle"
    /\ spread.runs < MaxSpread
    /\ LET es == AllEnvelopes(DBOf(Self))
           r == Envelope(DBOf(Self), id, fault)
           others == { e \in es : e.Id # id }
           todo == { e \in others : e.MonthTarget # 0 }
       IN
       /\ SetDB(Self, r.db)
       /\ IF r.err # "nil" \/ todo = {}
          THEN /\ last' = Returned("Spread", 0, id, r.err)
               /\ spread' = [spread EXCEPT !.runs = @ + 1, !.id = id, !.env = r.env,
                                           !.es = es, !.todo = {}, !.n = 0,
                                           !.total = SumMonthTarget(others)]
          ELSE /\ spread' = [spread EXCEPT !.pc = "credit", !.id = id, !.env = r.env,
                                           !.es = es, !.todo = todo, !.n = 0,
                                           !.total = SumMonthTarget(others)]
               /\ UNCHANGED last
    /\ UNCHANGED <<now, nextId, req, bcast, handed, pmVars, input, txn, drain, reply, pubVars>>

\* d.UpdateEnvelopeBalance(e.Id, int(amount), "Spread from ...") for the next e
SpreadCredit(fault) ==
    /\ Alive
    /\ spread.pc = "credit"
    /\ \E e \in spread.todo :
         LET r == ApplyBalance(DBOf(Self), e.Id, Amount(spread, e),
                               <<"Spread from", spread.env.Name>>,
                               SpreadEventId(spread), fault)
         IN
         /\ SetDB(Self, r.db)
         /\ TrySend(r.evt)
         /\ IF r.err # "nil"
            THEN /\ last' = Returned("Spread", r.evt.Id, e.Id, r.err)
                 /\ spread' = [spread EXCEPT !.pc = "idle", !.runs = @ + 1]
            ELSE /\ spread' = [spread EXCEPT !.pc = "debit", !.cur = e,
                                             !.todo = @ \ {e}, !.n = @ + 1]
                 /\ UNCHANGED last
    /\ UNCHANGED <<now, nextId, req, handed, pmVars, input, txn, drain, reply, pubVars>>

\* d.UpdateEnvelopeBalance(id, int(-amount), "Spread to ..."); return nil
\* after the last envelope
SpreadDebit(fault) ==
    /\ Alive
    /\ spread.pc = "debit"
    /\ LET r == ApplyBalance(DBOf(Self), spread.id, -Amount(spread, spread.cur),
                             <<"Spread to", spread.cur.Name>>,
                             SpreadEventId(spread), fault)
       IN
       /\ SetDB(Self, r.db)
       /\ TrySend(r.evt)
       /\ IF r.err # "nil"
          THEN /\ last' = Returned("Spread", r.evt.Id, spread.id, r.err)
               /\ spread' = [spread EXCEPT !.pc = "idle", !.runs = @ + 1]
          ELSE IF spread.todo = {}
          THEN /\ last' = Returned("Spread", 0, spread.id, "nil")
               /\ spread' = [spread EXCEPT !.pc = "idle", !.runs = @ + 1, !.n = @ + 1]
          ELSE /\ spread' = [spread EXCEPT !.pc = "credit", !.n = @ + 1]
               /\ UNCHANGED last
    /\ UNCHANGED <<now, nextId, req, handed, pmVars, input, txn, drain, reply, pubVars>>

\* the events that brought an envelope to a given row: an update of its name
\* and targets, a balance change, a tombstone
SeedEvents(base, id, row) ==
    (IF row.name # "" \/ row.target # 0 \/ row.monthtarget # 0
     THEN <<Event(base + 1, id, 0, row.name, 0, row.target, row.monthtarget, FALSE, "")>>
     ELSE <<>>)
    \o (IF row.balance # 0
        THEN <<Event(base + 2, id, 0, "", row.balance, 0, 0, FALSE, "seed")>>
        ELSE <<>>)
    \o (IF row.deleted THEN <<Event(base + 3, id, 0, "", 0, 0, 0, TRUE, "")>> ELSE <<>>)

\* the tables after MergeEvent of each event of a sequence in turn (the set
\* with one element gives each intermediate result a value of its own)
RECURSIVE MergeAll(_, _)
MergeAll(db, evts) ==
    IF evts = <<>> THEN db
    ELSE CHOOSE r \in { MergeAll(next, Tail(evts)) :
                          next \in {MergeEvent(db, Head(evts), "none").db} } : TRUE

Row(name, bal, tgt, mtgt, del) ==
    [name |-> name, balance |-> bal, target |-> tgt, monthtarget |-> mtgt, deleted |-> del]

\* the rows the seeds give to A (the envelope updated and spread), B and C
SeedsA == { Row(n, b, t, m, d) : n \in {"", "Rent"}, b \in {-2, 2}, t \in {0, 2},
                                 m \in {0, 1}, d \in BOOLEAN }
SeedsB == { Row("B", 0, 0, m, d) : m \in {0, 1}, d \in BOOLEAN }
SeedsC == { Row("C", 0, 0, m, FALSE) : m \in {0, 2} }
MetaInputs == [name : {"", "Rent"}, newTarget : {0, 2}, newMonthTarget : {0, 1}]

InitStore ==
    /\ InitProcess
    /\ \E a \in SeedsA \cup {ZeroRow}, b \in SeedsB, c \in SeedsC :
         LET db == MergeAll([envelopes |-> <<>>, history |-> {}],
                            SeedEvents(200, "A", a) \o SeedEvents(210, "B", b)
                              \o SeedEvents(220, "C", c))
         IN /\ envelopes = [p \in Peers |-> IF p = Self THEN db.envelopes ELSE <<>>]
            /\ history = [p \in Peers |-> IF p = Self THEN db.history ELSE {}]
    /\ input \in MetaInputs

NextStore ==
    \/ \E f \in ReadFaults : GetEnvelope("A", f)
    \/ UpdateEnvelopeMeta("A", input.name, input.newTarget, input.newMonthTarget, "none")
    \/ Offer
    \/ MergeLocal("none")
    \/ \E f \in ReadFaults : SpreadStart("A", f)
    \/ \E f \in {"none", "commit"} : SpreadCredit(f)
    \/ \E f \in {"none", "commit"} : SpreadDebit(f)

SpecStore == InitStore /\ [][NextStore]_vars

\* DB.Spread alone, on tables in which every envelope may hold a balance
SpreadSeedsA == { Row("Rent", b, 0, m, d) : b \in {-2, 0, 2, 3}, m \in {0, 1}, d \in BOOLEAN }
SpreadSeedsB == { Row("B", b, 0, m, d) : b \in {-1, 0, 1}, m \in {0, 1}, d \in BOOLEAN }
SpreadSeedsC == { Row("C", b, 0, m, FALSE) : b \in {0, 1}, m \in {0, 2} }

InitSpread ==
    /\ InitProcess
    /\ \E a \in SpreadSeedsA \cup {ZeroRow}, b \in SpreadSeedsB, c \in SpreadSeedsC :
         LET db == MergeAll([envelopes |-> <<>>, history |-> {}],
                            SeedEvents(200, "A", a) \o SeedEvents(210, "B", b)
                              \o SeedEvents(220, "C", c))
         IN /\ envelopes = [p \in Peers |-> IF p = Self THEN db.envelopes ELSE <<>>]
            /\ history = [p \in Peers |-> IF p = Self THEN db.history ELSE {}]
    /\ input = NoInput

NextSpread ==
    \/ \E f \in ReadFaults : SpreadStart("A", f)
    \/ \E f \in {"none", "commit"} : SpreadCredit(f)
    \/ \E f \in {"none", "commit"} : SpreadDebit(f)

SpecSpread == InitSpread /\ [][NextSpread]_vars

(***************************************************************************)
(* The read handlers, under SpecRead: the ledger of Self takes the events  *)
(* of its peers in any order while the clock runs into the next month, and *)
(* the pages of the UI read it.                                            *)
(***************************************************************************)
\* handleDetail: db.EnvelopeWithHistory(id)
handleDetail(id) ==
    /\ Alive
    /\ LET r == EnvelopeWithHistory(DBOf(Self), id) IN
       /\ SetDB(Self, r.db)
       /\ reply' = [op |-> "EnvelopeWithHistory", id |-> id, err |-> r.err, env |-> r.env,
                    events |-> r.events, envelopes |-> {}]
    /\ UNCHANGED <<now, nextId, req, last, bcast, handed, pmVars, spread, input, txn, drain, pubVars>>

\* handleRequest: es := db.AllEnvelopes()
handleRequest ==
    /\ Alive
    /\ reply' = [NoReply EXCEPT !.op = "AllEnvelopes",
                                !.envelopes = AllEnvelopes(DBOf(Self))]
    /\ UNCHANGED <<envelopes, history, now, nextId, req, last, bcast, handed, pmVars,
                   spread, input, txn, drain, pubVars>>

\* the events of the peers: those of Pool, a second name for A, and a
\* deposit on B and its tombstone
Inbox ==
    Pool \cup { Event(104, "A", 0, "Food", 0, 0, 0, FALSE, ""),
                Event(105, "B", 0, "Car", 2, 0, 0, FALSE, ""),
                Event(106, "B", 0, "", 0, 0, 0, TRUE, "") }

NextRead ==
    \/ Tick
    \/ \E e \in Inbox : HandleEvent(Self, e, "none")
    \/ \E id \in EnvIds : handleDetail(id)
    \/ handleRequest

SpecRead == Init /\ [][NextRead]_vars

\* events of a peer among which one has a comment and one a name that read as
\* a number, merged by Self and read back by the detail page
NumberLike ==
    { Event(101, "A", 0, "Rent", 3, 0, 0, FALSE, "deposit"),
      Event(109, "A", 0, "", 1, 2, 1, FALSE, "007"),
      Event(110, "B", 0, "007", 0, 0, 0, FALSE, ""),
      Event(103, "A", 0, "", 0, 0, 0, TRUE, "") }

NextBack ==
    \/ Tick
    \/ \E e \in NumberLike : HandleEvent(Self, e, "none")
    \/ \E id \in {"A", "B"} : handleDetail(id)

SpecBack == Init /\ [][NextBack]_vars

(***************************************************************************)
(* Every operation of the store on one ledger, under SpecLedger: inbound   *)
(* merges, the Update and Delete calls, Spread (which reads AllEnvelopes)  *)
(* and the detail page, on tables that hold three envelopes.               *)
(***************************************************************************)
InitLedger ==
    /\ InitProcess
    /\ LET db == MergeAll([envelopes |-> <<>>, history |-> {}],
                          SeedEvents(200, "A", Row("Rent", 2, 0, 0, FALSE))
                            \o SeedEvents(210, "B", Row("B", 0, 0, 1, FALSE))
                            \o SeedEvents(220, "C", Row("C", 1, 0, 2, FALSE)))
       IN /\ envelopes = [p \in Peers |-> IF p = Self THEN db.envelopes ELSE <<>>]
          /\ history = [p \in Peers |-> IF p = Self THEN db.history ELSE {}]
    /\ input = NoInput

NextLedger ==
    \/ \E e \in { x \in Pool : x.Id \in {101, 103} } : HandleEvent(Self, e, "none")
    \/ UpdateEnvelopeBalance("A", -1, "tx", "none")
    \/ DeleteEnvelope("C")
    \/ Offer
    \/ MergeLocal("none")
    \/ SpreadStart("A", "none")
    \/ SpreadCredit("none")
    \/ SpreadDebit("none")
    \/ handleDetail("A")

SpecLedger == InitLedger /\ [][NextLedger]_vars

(***************************************************************************)
(* DB.MergeEvent statement by statement, for two calls that run at the     *)
(* same time on Self: the one an HTTP handler makes through                *)
(* UpdateEnvelopeBalance or UpdateEnvelopeMeta, and the one the dispatch   *)
(* goroutine makes for an inbound `event`.  d.db.Begin() gives each call a *)
(* connection of its own.  The database file is locked as the engine locks *)
(* it for a transaction begun with BEGIN: the first SELECT takes a shared  *)
(* lock that is kept until Commit or Rollback, the first INSERT or UPDATE  *)
(* takes the reserved lock, which one connection holds at a time, and      *)
(* COMMIT needs every other connection to have given up its shared lock.   *)
(* A statement that does not get its lock waits, or returns busy.          *)
(***************************************************************************)
\* the statements of this transaction have read nothing that it still relies on
SharedNone(t) == FALSE

\* tx.QueryRow(...).Scan(...) has run in the transaction of t, which is still open
Shared(t) == txn[t].pc \in {"history", "update", "commit"}

\* a tx.Exec of t has written, and its transaction is still open
Reserved(t) == txn[t].rows # <<>> \/ txn[t].hist # {}

OtherShared(t) == \E u \in Conns \ {t} : Shared(u)
OtherReserved(t) == \E u \in Conns \ {t} : Reserved(u)

\* the tables as the statements of t read them: the file and what t has written
View(t) ==
    [envelopes |-> txn[t].rows @@ envelopes[Self],
     history |-> history[Self] \cup txn[t].hist]

\* MergeEvent returns err: the transaction of t is over (tx.Rollback() or a
\* Commit that went through), its locks are given up
Finish(t, err) ==
    /\ txn' = [txn EXCEPT ![t] =
                 [TxIdle EXCEPT !.ok = IF err = "nil" THEN txn[t].ok \cup {txn[t].evt.Id}
                                       ELSE txn[t].ok,
                                !.err = err, !.id = txn[t].evt.Id, !.with = txn[t].with]]
    /\ last' = Returned(IF t = "http" THEN req.op ELSE "MergeEvent",
                        txn[t].evt.Id, txn[t].evt.EnvelopeId, err)
    /\ req' = IF t = "http" THEN Idle ELSE req

\* the event of the call of another goroutine that is in flight, if any
InFlight(t) ==
    IF \E u \in Conns \ {t} : txn[u].pc # "idle"
    THEN txn[CHOOSE u \in Conns \ {t} : txn[u].pc # "idle"].evt.Id
    ELSE 0

\* tx, err := d.db.Begin()
TxBegin(t, e) ==
    /\ Alive
    /\ txn[t].pc = "idle"
    /\ t = "http" => req.pc = "merge" /\ e = req.evt
    /\ txn' = [txn EXCEPT ![t] = [@ EXCEPT !.pc = "select", !.evt = e, !.with = InFlight(t)]]
    /\ UNCHANGED <<envelopes, history, now, nextId, req, last, bcast, handed, pmVars,
                   spread, input, reply, pubVars, drain>>

\* env, err := d.envelopeWithTx(tx, e.EnvelopeId): the SELECT, and the INSERT
\* of a zero row when the SELECT found none
TxSelect(t) ==
    /\ Alive
    /\ txn[t].pc = "select"
    /\ LET id == txn[t].evt.EnvelopeId
           r == envelopeWithTx(View(t), id, FALSE)
       IN IF r.err # "nil" THEN Finish(t, r.err)
          ELSE IF ~SelectLive(View(t), id) /\ OtherReserved(t) THEN Finish(t, "busy")
          ELSE /\ txn' = [txn EXCEPT ![t] =
                            [@ EXCEPT !.pc = "history", !.env = r.env,
                                      !.rows = IF SelectLive(View(t), id) THEN @
                                               ELSE (id :> r.tx.envelopes[id]) @@ @]]
               /\ UNCHANGED <<req, last>>
    /\ UNCHANGED <<envelopes, history, now, nextId, bcast, handed, pmVars,
                   spread, input, reply, pubVars, drain>>

\* tx.Exec(`INSERT INTO history ...`)
TxInsert(t) ==
    /\ Alive
    /\ txn[t].pc = "history"
    /\ LET r == InsertHistory(View(t), txn[t].evt, FALSE)
       IN IF OtherReserved(t) THEN Finish(t, "busy")
          ELSE IF r.err # "nil" THEN Finish(t, r.err)
          ELSE /\ txn' = [txn EXCEPT ![t] =
                            [@ EXCEPT !.pc = "update",
                                      !.hist = @ \cup {HistoryRow(txn[t].evt, now)}]]
               /\ UNCHANGED <<req, last>>
    /\ UNCHANGED <<envelopes, history, now, nextId, bcast, handed, pmVars,
                   spread, input, reply, pubVars, drain>>

\* tx.Exec(`UPDATE envelopes SET ... WHERE id = $6`), with the env the SELECT gave
TxUpdate(t) ==
    /\ Alive
    /\ txn[t].pc = "update"
    /\ LET r == UpdateEnvelope(View(t), txn[t].env, txn[t].evt, FALSE)
           id == txn[t].env.Id
       IN txn' = [txn EXCEPT ![t] =
                    [@ EXCEPT !.pc = "commit", !.rows = (id :> r.tx.envelopes[id]) @@ @]]
    /\ UNCHANGED <<envelopes, history, now, nextId, req, last, bcast, handed, pmVars,
                   spread, input, reply, pubVars, drain>>

\* return tx.Commit(): what the transaction wrote reaches the file, unless
\* another connection still reads it
TxCommit(t) ==
    /\ Alive
    /\ txn[t].pc = "commit"
    /\ IF OtherShared(t)
       THEN /\ Finish(t, "busy")
            /\ UNCHANGED <<envelopes, history>>
       ELSE /\ envelopes' = [envelopes EXCEPT ![Self] = txn[t].rows @@ @]
            /\ history' = [history EXCEPT ![Self] = @ \cup txn[t].hist]
            /\ Finish(t, "nil")
    /\ UNCHANGED <<now, nextId, bcast, handed, pmVars, spread, input, reply, pubVars, drain>>

\* the events the bus delivers while the handler runs: a deposit and a change of
\* the targets of the envelope the handler updates, and a deposit for another one
TxInbox ==
    { Event(101, "A", 0, "Rent", 3, 0, 0, FALSE, "deposit"),
      Event(107, "A", 0, "", 0, 2, 1, FALSE, ""),
      Event(108, "D", 0, "Dog", 1, 0, 0, FALSE, "") }

InitTx ==
    /\ InitProcess
    /\ LET db == MergeAll([envelopes |-> <<>>, history |-> {}],
                          SeedEvents(200, "A", Row("Rent", 2, 0, 0, FALSE)))
       IN /\ envelopes = [p \in Peers |-> IF p = Self THEN db.envelopes ELSE <<>>]
          /\ history = [p \in Peers |-> IF p = Self THEN db.history ELSE {}]
    /\ input = [name |-> "Rent", newTarget |-> 1, newMonthTarget |-> 2]

NextTx ==
    \/ UpdateEnvelopeBalance("A", -1, "tx", "none")
    \/ UpdateEnvelopeMeta("A", input.name, input.newTarget, input.newMonthTarget, "none")
    \/ Offer
    \/ TxBegin("http", req.evt)
    \/ \E e \in TxInbox : TxBegin("inbound", e)
    \/ \E t \in Conns : TxSelect(t)
    \/ \E t \in Conns : TxInsert(t)
    \/ \E t \in Conns : TxUpdate(t)
    \/ \E t \in Conns : TxCommit(t)

SpecTx == InitTx /\ [][NextTx]_vars

(***************************************************************************)
(* drainPeers, under SpecDial: the DHT hands the goroutine compact peer    *)
(* entries, the same one any number of times, and a dial fails or not.     *)
(***************************************************************************)
MaxEmit == 5

\* the entries of pm.d.PeersRequestResults: three peers, one of them Self's own
\* address, and two strings that are no peer entry
Compact == {"c1", "c2", "c3", "short", "empty"}

\* dht.DecodePeerAddress(x): the "ip:port" of a compact entry, the empty string
\* for a string that is none
DecodePeerAddress(x) ==
    CASE x = "c1" -> "10.0.0.1:55000"
      [] x = "c2" -> "10.0.0.2:55000"
      [] x = "c3" -> "10.0.0.3:55000"
      [] OTHER -> ""

\* an address is kept only when its dial went through
MarkSeenIfDialed(seen, addr, ok) == IF ok THEN seen \cup {addr} ELSE seen

\* seen[addr] = struct{}{}
MarkSeen(seen, addr, ok) == seen \cup {addr}

\* the body of the innermost loop of drainPeers for one entry x;
\* connectToPeer logs the error of a dial that fails and returns
DrainPeer(x, ok) ==
    /\ Alive
    /\ drain.n < MaxEmit
    /\ LET addr == DecodePeerAddress(x) IN
       drain' = [seen |-> MarkSeen(drain.seen, addr, ok),
                 dials |-> IF addr \notin drain.seen
                           THEN Append(drain.dials, [addr |-> addr, ok |-> ok])
                           ELSE drain.dials,
                 n |-> drain.n + 1]
    /\ UNCHANGED <<envelopes, history, now, nextId, req, last, bcast, handed, pmVars,
                   spread, input, reply, pubVars, txn>>

NextDial == \E x \in Compact, ok \in BOOLEAN : DrainPeer(x, ok)

SpecDial == Init /\ [][NextDial]_vars

(***************************************************************************)
(* Properties of the store, under Spec.                                    *)
(***************************************************************************)
RECURSIVE SumField(_, _)
SumField(rows, f) ==
    IF rows = {} THEN 0
    ELSE LET h == CHOOSE x \in rows : TRUE IN h[f] + SumField(rows \ {h}, f)

RowsOf(p, id) == { h \in history[p] : h.envelope = id }
IsDeleted(p, id) == id \in DOMAIN envelopes[p] /\ envelopes[p][id].deleted

\* C1: a MergeEvent of an event id that history already holds leaves both
\* tables as they were: no second row, no delta, name or flag applied again.
C1_MergeIsIdempotent ==
    [][ (last'.op = "MergeEvent" /\ last'.id \in Ids(history[Self]))
          => UNCHANGED <<envelopes, history>> ]_vars

\* C1 witness: an inbound MergeEvent of an id in history has returned, after
\* a first merge that changed the balance.
C1_Witness ==
    /\ last.op = "MergeEvent" /\ last.err = "constraint"
    /\ last.id \in Ids(history[Self])
    /\ "A" \in DOMAIN envelopes[Self] /\ envelopes[Self]["A"].balance = 3
    /\ ~envelopes[Self]["A"].deleted

\* C2: in every state the balance, target and monthtarget of an envelope row
\* are the sums of those columns over the history rows of that envelope, and
\* an id without an envelope row has no history rows.
C2_ProjectionIsSum ==
    \A p \in Peers, id \in EnvIds :
        IF id \in DOMAIN envelopes[p]
        THEN /\ envelopes[p][id].balance = SumField(RowsOf(p, id), "balance")
             /\ envelopes[p][id].target = SumField(RowsOf(p, id), "target")
             /\ envelopes[p][id].monthtarget = SumField(RowsOf(p, id), "monthtarget")
        ELSE RowsOf(p, id) = {}

\* C2 witness: an envelope built from a local meta change and two remote
\* balance events.
C2_Witness ==
    /\ "A" \in DOMAIN envelopes[Self]
    /\ Cardinality(RowsOf(Self, "A")) = 3
    /\ envelopes[Self]["A"].balance = 2
    /\ envelopes[Self]["A"].target = 2
    /\ envelopes[Self]["A"].monthtarget = 1

\* C4 (the claim as stated): a MergeEvent of an event id that history already
\* holds returns no error, the engine itself not failing.
C4_DuplicateReturnsNil ==
    [][ (last'.op = "MergeEvent" /\ last'.id \in Ids(history[Self])
           /\ last'.err # "fault") => last'.err = "nil" ]_vars

\* C5: a store call that returns an error leaves both tables as they were
\* before the call.
C5_ErrorLeavesStore ==
    [][ (last'.err # "nil") => UNCHANGED <<envelopes, history>> ]_vars

\* C5 witness: a MergeEvent for an id without an envelope row has failed in
\* the engine, and neither an envelope row nor a history row is there.
C5_Witness ==
    /\ last.op = "MergeEvent" /\ last.err = "fault"
    /\ last.env \notin DOMAIN envelopes[Self]
    /\ last.id \notin Ids(history[Self])

\* C6 (the claim as stated): a MergeEvent of a new event, or an
\* UpdateEnvelopeBalance, for an envelope that is deleted returns no error
\* (the engine itself not failing), and the merge records the history row.
C6_DeletedStillAccepted ==
    [][ (/\ last'.op \in {"MergeEvent", "UpdateEnvelopeBalance"}
         /\ IsDeleted(Self, last'.env)
         /\ last'.id \notin Ids(history[Self])
         /\ last'.err # "fault")
          => /\ last'.err = "nil"
             /\ last'.op = "MergeEvent" => last'.id \in Ids(history'[Self]) ]_vars

\* C24: an envelope that is deleted stays deleted in every later state: no
\* merge and no Update or Delete call changes its row, AllEnvelopes does not
\* return it, and its history rows stay in the table.
C24_DeletedIsTerminal ==
    [][ \A p \in Peers, id \in EnvIds :
          IsDeleted(p, id)
            => /\ id \in DOMAIN envelopes'[p]
               /\ envelopes'[p][id] = envelopes[p][id]
               /\ RowsOf(p, id) \subseteq history'[p]
               /\ id \notin { e.Id : e \in AllEnvelopes([envelopes |-> envelopes'[p],
                                                        history |-> history'[p]]) } ]_vars

\* the deposit 101 has arrived after A was deleted and has been turned away:
\* A is deleted as before and keeps its tombstone row
C24_Witness ==
    /\ last.op = "MergeEvent" /\ last.id = 101 /\ last.err = "constraint"
    /\ IsDeleted(Self, "A")
    /\ 101 \notin Ids(history[Self])
    /\ \E h \in RowsOf(Self, "A") : h.deleted


(***************************************************************************)
(* Reads, update requests and Spread, under SpecStore and SpecSpread.      *)
(***************************************************************************)
\* the row of an envelope as a reader sees it: a zero row when there is none
RowOf(p, id) == IF id \in DOMAIN envelopes[p] THEN envelopes[p][id] ELSE ZeroRow

\* C16 (the claim as stated): after Envelope(id) has returned for an id that
\* had no row, the envelopes table holds a zero row for id.
C16_EnvelopeMaterializes ==
    [][ ( /\ last' # last
          /\ last'.op = "Envelope"
          /\ last'.err = "nil"
          /\ last'.env \notin DOMAIN envelopes[Self] )
        => /\ last'.env \in DOMAIN envelopes'[Self]
           /\ envelopes'[Self][last'.env] = ZeroRow ]_vars

\* UpdateEnvelopeMeta has read the envelope without error in this step, and
\* either goes on with an Event or returns nil at once
MetaCreatesEvent == req.pc = "idle" /\ req'.pc = "offer" /\ req'.op = "UpdateEnvelopeMeta"
MetaReturnsAtOnce ==
    /\ req.pc = "idle" /\ req' = req
    /\ last' # last /\ last'.op = "UpdateEnvelopeMeta" /\ last'.err = "nil"

\* the request changes nothing: the name is the current one and both targets
\* are the current ones
NoChange(row) ==
    /\ input.name = row.name
    /\ input.newTarget = row.target
    /\ input.newMonthTarget = row.monthtarget

\* C17 (the claim as stated): UpdateEnvelopeMeta creates no Event exactly
\* when the name is the current name and both deltas are zero, and one Event
\* in every other case.
C17_NoEventIffNoChange ==
    [][ /\ MetaCreatesEvent => ~NoChange(RowOf(Self, req'.evt.EnvelopeId))
        /\ MetaReturnsAtOnce => NoChange(RowOf(Self, last'.env)) ]_vars

\* UpdateEnvelopeMeta returns nil in this step, at once or from its MergeEvent
MetaReturns ==
    \/ MetaReturnsAtOnce
    \/ /\ req.pc = "merge" /\ req.op = "UpdateEnvelopeMeta" /\ req'.pc = "idle"
       /\ last'.err = "nil"

\* C18 (the claim as stated): when UpdateEnvelopeMeta succeeds and no other
\* call has merged meanwhile, the envelope has the requested targets, the
\* requested name (its own when the request names none), the balance it had,
\* and history has one more row, which carries the deltas.
C18_MetaChangeApplied ==
    [][ (MetaReturns /\ spread = SpreadIdle) =>
          LET id == last'.env
              old == RowOf(Self, id)
          IN /\ id \in DOMAIN envelopes'[Self]
             /\ envelopes'[Self][id].target = input.newTarget
             /\ envelopes'[Self][id].monthtarget = input.newMonthTarget
             /\ envelopes'[Self][id].balance = old.balance
             /\ envelopes'[Self][id].name = IF input.name = "" THEN old.name ELSE input.name
             /\ \E h \in history'[Self] \ history[Self] :
                    /\ history'[Self] = history[Self] \cup {h}
                    /\ h.envelope = id
                    /\ h.balance = 0
                    /\ h.target = input.newTarget - old.target
                    /\ h.monthtarget = input.newMonthTarget - old.monthtarget ]_vars

\* what does hold: a call that goes as far as its MergeEvent leaves the
\* requested targets and name, the balance, and one row with the deltas
C18_MergedChangeApplied ==
    [][ (MetaReturns /\ ~MetaReturnsAtOnce /\ spread = SpreadIdle) =>
          LET id == last'.env
              old == RowOf(Self, id)
          IN /\ id \in DOMAIN envelopes'[Self]
             /\ envelopes'[Self][id].target = input.newTarget
             /\ envelopes'[Self][id].monthtarget = input.newMonthTarget
             /\ envelopes'[Self][id].balance = old.balance
             /\ envelopes'[Self][id].name = IF input.name = "" THEN old.name ELSE input.name
             /\ \E h \in history'[Self] \ history[Self] :
                    /\ history'[Self] = history[Self] \cup {h}
                    /\ h.envelope = id
                    /\ h.balance = 0
                    /\ h.target = input.newTarget - old.target
                    /\ h.monthtarget = input.newMonthTarget - old.monthtarget ]_vars

\* n / d rounded to the nearest integer, halves away from zero
Round(n, d) ==
    LET q == (2 * Abs(n) + Abs(d)) \div (2 * Abs(d)) IN
    IF (n < 0) # (d < 0) THEN -q ELSE q

\* Spread returns nil in this step
SpreadReturns == last' # last /\ last'.op = "Spread" /\ last'.err = "nil"

\* the history rows written by the Spread call that returns in this step
SpreadRows ==
    { h \in history'[Self] : h.id > 300 + 10 * spread.runs /\ h.id <= 310 + 10 * spread.runs }

\* C20 (the claim as stated): Spread creates, for every envelope e other than
\* the source that is not deleted and has MonthTarget > 0, one balance event
\* of +a on e and one of -a on the source, a being the source's balance times
\* e's share of the total MonthTarget, rounded; and no other event.
C20_SpreadEvents ==
    [][ SpreadReturns =>
          LET sp == spread'
              others == { e \in sp.es : e.Id # sp.id }
              T == SumMonthTarget(others)
              R == { e \in others : e.MonthTarget > 0 }
          IN /\ Cardinality(SpreadRows) = 2 * Cardinality(R)
             /\ \A e \in R :
                  LET a == Round(sp.env.Balance * e.MonthTarget, T) IN
                  /\ \E h \in SpreadRows :
                        /\ h.envelope = e.Id /\ h.balance = a
                        /\ h.target = 0 /\ h.monthtarget = 0 /\ ~h.deleted
                  /\ \E h \in SpreadRows :
                        /\ h.envelope = sp.id /\ h.balance = -a
                        /\ h.comment = <<"Spread to", e.Name>>
                        /\ h.target = 0 /\ h.monthtarget = 0 /\ ~h.deleted ]_vars

\* what does hold: the same with the amount cut off at the decimal point
C20_SpreadEventsTruncated ==
    [][ SpreadReturns =>
          LET sp == spread'
              others == { e \in sp.es : e.Id # sp.id }
              T == SumMonthTarget(others)
              R == { e \in others : e.MonthTarget > 0 }
          IN /\ Cardinality(SpreadRows) = 2 * Cardinality(R)
             /\ \A e \in R :
                  LET a == TruncDiv(sp.env.Balance * e.MonthTarget, T) IN
                  /\ \E h \in SpreadRows :
                        /\ h.envelope = e.Id /\ h.balance = a
                        /\ h.target = 0 /\ h.monthtarget = 0 /\ ~h.deleted
                  /\ \E h \in SpreadRows :
                        /\ h.envelope = sp.id /\ h.balance = -a
                        /\ h.comment = <<"Spread to", e.Name>>
                        /\ h.target = 0 /\ h.monthtarget = 0 /\ ~h.deleted ]_vars

\* the sum of Balance over a set of Envelope structs
RECURSIVE SumBalance(_)
SumBalance(es) ==
    IF es = {} THEN 0
    ELSE LET e == CHOOSE x \in es : TRUE IN e.Balance + SumBalance(es \ {e})

\* the sum of the balance column over the rows written for envelope id by the
\* Spread call that returns in this step
SpreadDelta(id) == SumField({ h \in SpreadRows : h.envelope = id }, "balance")

\* C21: when Spread returns nil for a source whose balance B was not negative
\* and no other envelope had a negative MonthTarget, the amounts moved add up
\* to at most B, the source holds B less that sum, every other envelope holds
\* what it held plus its amount, the balances of all envelopes add up to what
\* they added up to before, and no balance that was not negative is negative.
C21_SpreadConserves ==
    [][ ( /\ SpreadReturns
          /\ spread'.env.Balance >= 0
          /\ \A e \in spread'.es : e.Id # spread'.id => e.MonthTarget >= 0 )
        => LET sp == spread'
               B == sp.env.Balance
               others == { e \in sp.es : e.Id # sp.id }
               moved == SumField({ h \in SpreadRows : h.envelope # sp.id }, "balance")
               after(id) == IF id \in DOMAIN envelopes'[Self]
                            THEN envelopes'[Self][id].balance ELSE 0
           IN /\ moved >= 0 /\ moved <= B
              /\ after(sp.id) = B - moved
              /\ \A h \in SpreadRows : h.envelope \in { e.Id : e \in others } \cup {sp.id}
              /\ \A e \in others :
                    /\ after(e.Id) = e.Balance + SpreadDelta(e.Id)
                    /\ e.Balance >= 0 => after(e.Id) >= 0
              /\ after(sp.id)
                   + SumBalance({ [Id |-> e.Id, Balance |-> after(e.Id)] : e \in others })
                   = B + SumBalance({ [Id |-> e.Id, Balance |-> e.Balance] : e \in others }) ]_vars

\* a balance of 2 has been spread over B (a third) and C (two thirds): C has
\* got 1, B nothing, and the source keeps 1
C21_Witness ==
    /\ last.op = "Spread" /\ last.err = "nil"
    /\ spread.pc = "idle" /\ spread.runs = 1 /\ spread.n = 4
    /\ spread.env.Balance = 2 /\ spread.total = 3
    /\ envelopes[Self]["A"].balance = 1
    /\ envelopes[Self]["B"].balance = 0
    /\ envelopes[Self]["C"].balance = 1

\* C39 (the claim as stated): Spread leaves the total of all balances as it
\* was, whether it returns nil or an error: the balance deltas of the rows a
\* Spread call has written add up to zero when it returns, no credit being
\* left without its debit.
C39_SpreadKeepsTotal ==
    [][ (spread'.runs = spread.runs + 1) => SumField(SpreadRows, "balance") = 0 ]_vars

(***************************************************************************)
(* The read operations, under SpecRead.                                    *)
(***************************************************************************)
\* EnvelopeWithHistory returns in this step
DetailReturns == reply' # reply /\ reply'.op = "EnvelopeWithHistory"

\* the events a reader of envelope id is to get: one per history row of id,
\* a tombstone under the current name of the envelope
EventsOf(id) ==
    { Event(h.id, h.envelope, h.date,
            IF h.deleted THEN RowOf(Self, id).name ELSE h.name,
            h.balance, h.target, h.monthtarget, h.deleted, h.comment) :
        h \in RowsOf(Self, id) }

\* C22 (the claim as stated): for every envelope id that has merged events,
\* a deleted envelope included, EnvelopeWithHistory(id) returns no error and
\* exactly the events of the history rows of id, each tombstone carrying the
\* current name of the envelope.
C22_HistoryOfEveryEnvelope ==
    [][ (DetailReturns /\ RowsOf(Self, reply'.id) # {})
          => /\ reply'.err = "nil"
             /\ reply'.events = EventsOf(reply'.id) ]_vars

\* what does hold: the same for an envelope that is not deleted
C22_HistoryOfLiveEnvelope ==
    [][ (DetailReturns /\ RowsOf(Self, reply'.id) # {} /\ ~IsDeleted(Self, reply'.id))
          => /\ reply'.err = "nil"
             /\ reply'.events = EventsOf(reply'.id) ]_vars

\* AllEnvelopes returns in this step
IndexReturns == reply' # reply /\ reply'.op = "AllEnvelopes"

\* the history rows of envelope id dated within the calendar month of the clock
RowsOfMonth(id) ==
    { h \in RowsOf(Self, id) : StartOfMonth(h.date) = StartOfMonth(now) }

\* C23: AllEnvelopes returns the envelopes that are not deleted, each once
\* and with the columns of its row, and no deleted one; the MonthDelta of
\* each is the sum of the balance deltas of its history rows dated within
\* the current calendar month (0 when there is none); the call stores nothing.
C23_AllEnvelopesOfThisMonth ==
    [][ IndexReturns =>
          LET live == { id \in DOMAIN envelopes[Self] : ~envelopes[Self][id].deleted } IN
          /\ { e.Id : e \in reply'.envelopes } = live
          /\ Cardinality(reply'.envelopes) = Cardinality(live)
          /\ \A e \in reply'.envelopes :
                /\ e.Name = envelopes[Self][e.Id].name
                /\ e.Balance = envelopes[Self][e.Id].balance
                /\ e.Target = envelopes[Self][e.Id].target
                /\ e.MonthTarget = envelopes[Self][e.Id].monthtarget
                /\ e.MonthDelta = SumField(RowsOfMonth(e.Id), "balance")
          /\ UNCHANGED <<envelopes, history>> ]_vars

\* B is deleted and A holds a deposit of last month and a withdrawal of this
\* month: the page lists A alone, with balance 2 and a delta of -1
C23_Witness ==
    /\ reply.op = "AllEnvelopes"
    /\ now = 1
    /\ IsDeleted(Self, "B")
    /\ \E e \in reply.envelopes : e.Id = "A" /\ e.Balance = 2 /\ e.MonthDelta = -1
    /\ Cardinality(reply.envelopes) = 1

\* the name of envelope id in a table envelopes, empty when it has no row
NameIn(envs, id) == IF id \in DOMAIN envs THEN envs[id].name ELSE ""

C40_ReadBackAsMerged ==
    (reply.op = "EnvelopeWithHistory" /\ reply.err = "nil") =>
      \A r \in reply.events : \A e \in NumberLike :
        r.Id = e.Id =>
          /\ r.EnvelopeId = e.EnvelopeId
          /\ r.Balance = e.Balance /\ r.Target = e.Target /\ r.MonthTarget = e.MonthTarget
          /\ r.Deleted = e.Deleted
          /\ r.Comment = e.Comment
          /\ ~e.Deleted => r.Name = e.Name

\* the part of C40 that holds: the idempotency key, the envelope, the three
\* deltas and the deleted flag come back as they were merged
C40_KeysAndDeltasKept ==
    (reply.op = "EnvelopeWithHistory" /\ reply.err = "nil") =>
      \A r \in reply.events : \A e \in NumberLike :
        r.Id = e.Id =>
          /\ r.EnvelopeId = e.EnvelopeId
          /\ r.Balance = e.Balance /\ r.Target = e.Target /\ r.MonthTarget = e.MonthTarget
          /\ r.Deleted = e.Deleted

(***************************************************************************)
(* The history table, under SpecLedger.                                    *)
(***************************************************************************)
\* C25: history is append-only: no operation of the store (MergeEvent, the
\* Update and Delete calls, Spread, the reads) removes a history row or
\* changes a field of one; a step only adds rows, each under a new id.
C25_HistoryAppendOnly ==
    [][ \A p \in Peers :
          /\ history[p] \subseteq history'[p]
          /\ \A h \in history'[p] \ history[p] : h.id \notin Ids(history[p]) ]_vars

\* an inbound deposit, a local request and a Spread have added their rows to
\* the seeded ones, and the detail page has read the envelope
C25_Witness ==
    /\ {201, 202, 101, 1, 301, 302} \subseteq Ids(history[Self])
    /\ reply.op = "EnvelopeWithHistory" /\ reply.err = "nil"
    /\ Cardinality(reply.events) >= 4

(***************************************************************************)
(* Concurrent calls of MergeEvent, under SpecTx.                           *)
(***************************************************************************)
\* C27: an HTTP-triggered update and an inbound MergeEvent that run at the
\* same time behave as if run one after the other: every event whose
\* MergeEvent returned nil has its row in history, and the balance, target
\* and monthtarget of every envelope are the sums of the deltas of all of
\* its history rows, so no delta of a call that returned nil is lost.
C27_BothDeltasPresent ==
    /\ \A t \in Conns : txn[t].ok \subseteq Ids(history[Self])
    /\ \A id \in DOMAIN envelopes[Self] :
         LET hs == { h \in history[Self] : h.envelope = id }
             row == envelopes[Self][id]
         IN /\ row.balance = SumField(hs, "balance")
            /\ row.target = SumField(hs, "target")
            /\ row.monthtarget = SumField(hs, "monthtarget")

\* a call on envelope A began while the call of the other goroutine on A was in
\* flight, and both have returned nil
C27_Witness ==
    \E t \in Conns : \E u \in Conns \ {t} :
      /\ txn[t].pc = "idle" /\ txn[t].err = "nil" /\ txn[t].with # 0
      /\ txn[t].with \in txn[u].ok
      /\ txn[t].id \in txn[t].ok
      /\ \A h \in history[Self] : h.id \in {txn[t].id, txn[t].with} => h.envelope = "A"
      /\ {txn[t].id, txn[t].with} \subseteq Ids(history[Self])

\* C37 (the claim as stated): UpdateEnvelopeMeta is atomic with respect to
\* inbound merges: also when an inbound MergeEvent changes the targets of the
\* envelope between the call's read and its own merge, the envelope has the
\* requested target and monthtarget right after the call's merge commits.
C37_MetaAtomic ==
    [][ ( /\ req.op = "UpdateEnvelopeMeta"
          /\ txn["http"].pc = "commit" /\ txn'["http"].pc = "idle"
          /\ txn'["http"].err = "nil" )
        => /\ envelopes'[Self][req.evt.EnvelopeId].target = input.newTarget
           /\ envelopes'[Self][req.evt.EnvelopeId].monthtarget = input.newMonthTarget ]_vars

(***************************************************************************)
(* Replication of local events, under SpecSync.                            *)
(***************************************************************************)
LocalIds == 1 .. MaxLocal

\* C7 (the claim as stated): every event an Update or Delete call committed
\* to the local history is eventually published as an `event` message, the
\* goroutines being scheduled fairly.
C7_CommittedIsPublished ==
    \A id \in LocalIds : (id \in Ids(history[Self])) ~> (id \in published)

\* the loss does not depend on the process dying in log.Fatalf: an event can
\* stay unpublished for ever while every goroutine keeps running
C7_PublishedOrDead ==
    \A id \in LocalIds : (id \in Ids(history[Self])) ~> (id \in published \/ ~Alive)

\* C8 (the claim as stated): when a full-sync pass is over, every event that
\* was in history when the pass began has been sent to the Events channel.
C8_PassSendsAll == sync.pc = "sleep" => sync.start \subseteq sync.sent

\* C9 (the claim as stated): the try-send never blocks the handler; when the
\* broadcaster is not receiving, the Event does not reach it and the handler
\* goes on to MergeEvent; and the dropped Event is in history when the call
\* returns.
C9_DroppedOfferStillMerged ==
    /\ [](Alive /\ req.pc = "offer" => ENABLED Offer)
    /\ [][ (req.pc = "offer" /\ req'.pc # "offer" /\ bcast.pc # "recv")
             => (req'.pc = "merge" /\ req'.dropped /\ bcast' = bcast) ]_vars
    /\ [][ (req.pc = "merge" /\ req.dropped /\ req'.pc = "idle")
             => req.evt.Id \in Ids(history'[Self]) ]_vars

\* the first two parts of C9 hold: the offer neither blocks nor, when dropped,
\* reaches the broadcaster
C9_OfferNeverBlocks ==
    /\ [](Alive /\ req.pc = "offer" => ENABLED Offer)
    /\ [][ (req.pc = "offer" /\ req'.pc # "offer" /\ bcast.pc # "recv")
             => (req'.pc = "merge" /\ req'.dropped /\ bcast' = bcast) ]_vars

\* C36 (the claim as stated): every event Self has published through the
\* event broadcaster is in Self's own history once the Update or Delete call
\* that made it has returned; a call whose merge fails leaves no event
\* broadcast that the local ledger lacks.
C36_PublishedIsInHistory ==
    \A id \in published :
      id \in Ids(history[Self]) \/ (req.pc = "merge" /\ req.evt.Id = id)

(***************************************************************************)
(* Inbound dispatch and the friends maps, under SpecHello and SpecPM.      *)
(***************************************************************************)
\* the dispatch goroutine runs the body of Friend.HandleMessage in this step
HandlesMessage == task.dispatch.pc = "body" /\ task'.dispatch.pc # "body"

\* C11: a message that Friend.HandleMessage accepts has a Seq greater than
\* the last one accepted by that Friend; a message whose Seq is not greater
\* changes neither f.msg, f.lastSeen nor the store.
C11_SeqIncreases ==
    [][ HandlesMessage =>
          LET f == task.dispatch.f
              m == task.dispatch.m
          IN IF friendObj[f].msg # 0 /\ m.Seq <= friendObj[f].msg
             THEN UNCHANGED <<friendObj, envelopes, history>>
             ELSE friendObj'[f].msg = m.Seq /\ friendObj'[f].lastSeen = now ]_vars

\* an `event` message with Seq 1 has been dropped by a Friend that had
\* accepted Seq 2 at an earlier time
C11_Witness ==
    /\ task.dispatch.pc = "return"
    /\ task.dispatch.m.Cmd = "event"
    /\ task.dispatch.m.Seq = 1
    /\ friendObj[task.dispatch.f].msg = 2
    /\ friendObj[task.dispatch.f].lastSeen < now

\* C12: a Friend object never returns to friends: every entry that appears
\* in friends holds a Friend object created in that step, and need_full_sync
\* is set by the step that creates it.
C12_NoReturnFromOldfriends ==
    [][ \A n \in DOMAIN friends' :
          (n \notin DOMAIN friends \/ friends'[n] # friends[n])
             => /\ Len(friendObj') = Len(friendObj) + 1
                /\ friends'[n] = Len(friendObj')
                /\ friends'[n] \notin Range(oldfriends)
                /\ need_full_sync' ]_vars

\* a nick that went stale is a key of friends again, with a second object
C12_Witness ==
    /\ "p2" \in DOMAIN oldfriends
    /\ "p2" \in DOMAIN friends
    /\ oldfriends["p2"] = 1
    /\ friends["p2"] = 2
    /\ need_full_sync

\* C13: a frame that does not parse, a message of Self and a message to
\* another nick are skipped by the dispatch: friends, oldfriends, the Friend
\* objects, need_full_sync, the store and the published events stay as they
\* are, and the dispatch does not go on to look up, handle or publish.
C13_IgnoredChangesNothing ==
    [][ ( /\ task.dispatch.pc = "recv"
          /\ task'.dispatch # task.dispatch
          /\ \/ task'.dispatch.err # "nil"
             \/ task'.dispatch.m.From = Self
             \/ task'.dispatch.m.To \notin {Self, "*"} )
        => /\ task'.dispatch.pc = "recv"
           /\ UNCHANGED <<friends, oldfriends, friendObj, need_full_sync, envelopes,
                          history, published, mtx>> ]_vars

\* the `event` message of Self, echoed by the bus, has been skipped: its
\* Event is not in history and Self is no friend of itself
C13_Witness ==
    /\ task.dispatch.pc = "recv"
    /\ task.dispatch.m.From = Self
    /\ task.dispatch.m.Cmd = "event"
    /\ task.dispatch.m.Payload.Id \notin Ids(history[Self])
    /\ Self \notin DOMAIN friends
    /\ "p2" \in DOMAIN friends

C33_OldfriendsKept ==
    [][ DOMAIN oldfriends \subseteq DOMAIN oldfriends' ]_vars

\* p2 went stale, returned, and the fresh Friend made for it has handled a message
C33_Witness ==
    /\ "p2" \in DOMAIN oldfriends /\ oldfriends["p2"] = 1
    /\ "p2" \in DOMAIN friends /\ friends["p2"] = 2
    /\ friendObj[2].msg # 0
    /\ task.dispatch.pc = "recv"

\* the dispatch has looked up the sender and created a Friend for it
CreatesFriend ==
    /\ task.dispatch.pc = "lookup"
    /\ task'.dispatch.pc = "handle"
    /\ task.dispatch.m.From \notin DOMAIN friends

\* pm.Publish(m.From, "hello", "") returns in this step
PublishesHello == task.dispatch.pc = "send" /\ task'.dispatch.pc = "recv"

\* the part of C15 that holds: a Friend is created with need_full_sync set,
\* and a `hello` is published only for a message whose sender was not in friends
C15_HelloOnlyForNewFriend ==
    /\ [][ CreatesFriend => (need_full_sync' /\ ~task'.dispatch.ok
                              /\ task.dispatch.m.From \in DOMAIN friends') ]_vars
    /\ [][ PublishesHello => ~task.dispatch.ok ]_vars

\* C15 (the claim as stated): a message from a nick that is not in friends
\* makes the dispatch create a Friend, set need_full_sync and publish one
\* `hello`; a message from a nick in friends causes no `hello`.
C15_HelloPerNewFriend ==
    /\ [][ CreatesFriend => (need_full_sync' /\ ~task'.dispatch.ok
                              /\ task.dispatch.m.From \in DOMAIN friends') ]_vars
    /\ [][ PublishesHello => ~task.dispatch.ok ]_vars
    /\ (task.dispatch.pc = "handle" /\ ~task.dispatch.ok) ~> (task.dispatch.pc = "send")

\* C14 (the claim as stated): no nick is a key of both friends and
\* oldfriends, the dispatch having removed the old entry when it created the
\* new Friend.
C14_FriendsDisjoint == DOMAIN friends \cap DOMAIN oldfriends = {}

(***************************************************************************)
(* Sequence numbers of outbound messages, under SpecPublish.               *)
(***************************************************************************)
\* a Friend that gets the messages in the order of wire skips message i,
\* having kept an earlier message with a Seq at least as large
SkippedByReceiver(i) == \E j \in 1 .. i - 1 : wire[j].Seq >= wire[i].Seq

\* C28 (the claim as stated): the messages of a peer reach Transport.Send in
\* increasing Seq order, whatever goroutines publish at the same time, so
\* that a receiver that gets them in send order skips no `event` message.
C28_SendInSeqOrder ==
    /\ \A i, j \in DOMAIN wire : i < j => wire[i].Seq < wire[j].Seq
    /\ \A i \in DOMAIN wire : wire[i].Cmd = "event" => ~SkippedByReceiver(i)

\* the goroutines that have their message built and not yet sent
Built == { t \in Publishers : pub[t].pc \in {"unlock", "send"} }

\* C29: in every interleaving of Publish calls the messages built so far,
\* sent or not, carry the Seq values 1, 2, ..., n, each once: the first
\* message gets 1, each later one the Seq after the last one assigned, no
\* two messages share a Seq and none is skipped.
C29_SeqDistinctConsecutive ==
    { wire[i].Seq : i \in DOMAIN wire } \cup { pub[t].m.Seq : t \in Built }
        = 1 .. (Len(wire) + Cardinality(Built))

\* three goroutines have published at the same time: the messages carry 1, 2
\* and 3, and the one with Seq 2 was sent first
C29_Witness ==
    /\ Len(wire) = 3
    /\ wire[1].Seq = 2
    /\ { wire[i].Seq : i \in DOMAIN wire } = {1, 2, 3}
    /\ { wire[i].Cmd : i \in DOMAIN wire } = Cmds

(***************************************************************************)
(* The full-sync flag, under SpecFlag.                                     *)
(***************************************************************************)
\* the part of C30 that holds: the flag is cleared only by the full-sync
\* goroutine, in the step that tests it under pm.mtx and begins a pass
C30_FlagClearedByCheck ==
    [][ (need_full_sync /\ ~need_full_sync')
          => (mtx = Free /\ sync.pc = "sleep" /\ sync'.pc = "envelopes") ]_vars

\* C30 (the claim as stated): the flag is tested and cleared in one
\* critical section, and whenever it is set a full-sync pass begins at some
\* later point, the goroutines being scheduled fairly, also when it is set
\* during a pass.
C30_FlagStartsPass ==
    /\ [][ (need_full_sync /\ ~need_full_sync')
             => (mtx = Free /\ sync.pc = "sleep" /\ sync'.pc = "envelopes") ]_vars
    /\ need_full_sync ~> ~need_full_sync

\* the dispatch has just made a Friend for an unknown sender
NewFriendMade == task.dispatch.pc = "handle" /\ ~task.dispatch.ok
\* the dispatch has just handled a `hello` it accepted
HelloAccepted == task.dispatch.pc = "return" /\ task.dispatch.m.Cmd = "hello"
                 /\ mtx.w = "dispatch"

\* the part of C31 that holds: the step that makes the Friend of an unknown
\* sender, and the step that handles an accepted `hello`, both leave the flag set
C31_BothSidesSetFlag ==
    [][ ( \/ (task.dispatch.pc = "lookup" /\ task'.dispatch.pc = "handle"
                /\ ~task'.dispatch.ok)
          \/ (task.dispatch.pc = "hello" /\ task'.dispatch.pc = "return") )
          => need_full_sync' ]_vars

\* C31 (the claim as stated): discovery arms a full sync on both sides: the
\* peer that meets an unknown sender sets the flag when it makes the Friend,
\* the peer that accepts the `hello` sets it when it handles the message, and
\* each of them runs a full-sync pass afterwards.
C31_DiscoveryStartsPass ==
    /\ [][ ( \/ (task.dispatch.pc = "lookup" /\ task'.dispatch.pc = "handle"
                   /\ ~task'.dispatch.ok)
             \/ (task.dispatch.pc = "hello" /\ task'.dispatch.pc = "return") )
             => need_full_sync' ]_vars
    /\ (need_full_sync /\ NewFriendMade) ~> (~need_full_sync /\ sync.pc = "envelopes")
    /\ (need_full_sync /\ HelloAccepted) ~> (~need_full_sync /\ sync.pc = "envelopes")

(***************************************************************************)
(* Payloads that do not decode, under SpecDecode.                          *)
(***************************************************************************)
\* C34 (the claim as stated): an `event` message whose payload cannot be
\* JSON-decoded into an Event is abandoned: MergeEvent is not called for it
\* and envelopes and history stay as they are.
C34_BadPayloadAbandoned ==
    [][ ( /\ task.dispatch.pc = "body" /\ task'.dispatch.pc # "body"
          /\ task.dispatch.m.Cmd = "event"
          /\ Unmarshal(task.dispatch.m.Payload).err # "nil" )
        => UNCHANGED <<envelopes, history, last>> ]_vars

(***************************************************************************)
(* The peer-dial task, under SpecDial.                                     *)
(***************************************************************************)
\* C35: the peer-dial task dials every distinct address at most once in the
\* life of the process, however often the address is handed to it and whether
\* or not its first dial went through.
C35_DialOncePerAddress ==
    \A i, j \in DOMAIN drain.dials :
      i # j => drain.dials[i].addr # drain.dials[j].addr

\* one address was handed over twice, its dial failed, and it was dialed once
C35_Witness ==
    /\ drain.n = 2
    /\ Len(drain.dials) = 1
    /\ ~drain.dials[1].ok

\* C38: merging an `event` received from a friend hands nothing to the
\* event broadcaster and publishes nothing; handling an `event` or an
\* `i'm alive` never sets need_full_sync, nor does the lookup of a sender
\* that is in friends; and the dispatch publishes nothing after a message of
\* a known friend.  Received events leave again only in a full-sync pass.
C38_NoEcho ==
    /\ [][ (HandlesMessage /\ task.dispatch.m.Cmd \in {"event", "i'm alive"})
             => /\ bcast' = bcast /\ published' = published
                /\ need_full_sync' = need_full_sync
                /\ task'.dispatch.pc = "return" ]_vars
    /\ [][ (task.dispatch.pc = "lookup" /\ task'.dispatch.pc = "handle"
              /\ task.dispatch.m.From \in DOMAIN friends)
             => (need_full_sync' = need_full_sync /\ task'.dispatch.ok) ]_vars
    /\ [][ (task.dispatch.pc = "return" /\ task.dispatch.ok
              /\ task'.dispatch.pc # "return")
             => (task'.dispatch.pc = "recv" /\ published' = published /\ bcast' = bcast) ]_vars

\* the broadcaster waits in its receive, and an `event` of the known friend
\* p2 has just been merged by the dispatch: nothing was handed to the broadcaster
C38_Witness ==
    /\ task.dispatch.pc = "return" /\ task.dispatch.ok
    /\ task.dispatch.m.Cmd = "event"
    /\ task.dispatch.m.Payload.Id \in Ids(history[Self])
    /\ last.op = "MergeEvent" /\ last.err = "nil"
    /\ bcast.pc = "recv"
    /\ ~need_full_sync

(***************************************************************************)
(* Lock order, under SpecPM.                                               *)
(***************************************************************************)
\* the Friend objects whose mtx task t holds
HeldFriends(t) == { f \in 1 .. Len(friendObj) : friendObj[f].mtx = t }

\* task t stands before a Lock or RLock of PeerManager.mtx
WantsPM(t) ==
    \/ t = "dispatch" /\ task[t].pc \in {"lookup", "hello", "publish"}
    \/ t = "alive" /\ task[t].pc = "publish"
    \/ t = "sweep" /\ task[t].pc = "sleep"
    \/ t = "String" /\ task[t].pc = "idle"

\* the tasks holding the lock that task t stands before
WaitsFor(t) ==
    IF t = "dispatch" /\ task[t].pc = "handle" THEN {friendObj[task[t].f].mtx} \ {"none"}
    ELSE IF t \in {"sweep", "String"} /\ task[t].pc = "friend"
    THEN {friendObj[task[t].f].mtx} \ {"none"}
    ELSE IF t = "String" /\ WantsPM(t) THEN {mtx.w} \ {"none"}
    ELSE IF WantsPM(t) THEN ({mtx.w} \cup mtx.r) \ {"none"}
    ELSE {}

Deadlock == \E t1, t2 \in Tasks : t1 # t2 /\ t2 \in WaitsFor(t1) /\ t1 \in WaitsFor(t2)

\* C10 (the claim as stated): no task stands before PeerManager.mtx while it
\* holds a Friend.mtx, and no two tasks wait for each other's lock.
C10_LockOrder ==
    /\ \A t \in Tasks : WantsPM(t) => HeldFriends(t) = {}
    /\ ~Deadlock

\* the inversion is not harmless: dispatch and the sweep, or dispatch and
\* String, do reach a state in which each waits for the other
C10_NoDeadlock == ~Deadlock

(***************************************************************************)
(* Convergence of two peers, under SpecPeers.                              *)
(***************************************************************************)
\* the columns of an envelope row that replication is to make equal
Projection(p, id) ==
    IF id \in DOMAIN envelopes[p]
    THEN <<envelopes[p][id].balance, envelopes[p][id].target,
           envelopes[p][id].monthtarget, envelopes[p][id].deleted>>
    ELSE <<>>

\* C3 (the claim as stated): two peers that were handed the same set of
\* events, in whatever orders, agree on balance, target, monthtarget and
\* deleted of every envelope id.
C3_PeersConverge ==
    handed["p1"] = handed["p2"] =>
        \A id \in EnvIds : Projection("p1", id) = Projection("p2", id)

\* C19 (the claim as stated): an event that arrives with a date is stored
\* with that date, so it has the same date on every peer that merged it, and
\* a stored row is not changed afterwards.
C19_DateSetOnce ==
    /\ [](\A p \in Peers : \A h \in history[p] : \A e \in Pool :
             e.Id = h.id => h.date = e.Date)
    /\ [](\A h1 \in history["p1"] : \A h2 \in history["p2"] :
             h1.id = h2.id => h1.date = h2.date)
    /\ [][ \A p \in Peers : history[p] \subseteq history'[p] ]_vars

\* what does hold: a stored row, its date included, is never changed
C19_StoredDateKept == [][ \A p \in Peers : history[p] \subseteq history'[p] ]_vars

====
